---- MODULE Spec2Model ----
(***************************************************************************)
(* A model of the front-end core of the Colt compiler: the type system of  *)
(* src/src/type/colt_type.cpp (type factories, BuiltInType::supports,      *)
(* Type::is_equal, Type::is_equal_with_const) and the expression tree of   *)
(* src/src/ast/colt_expr.h with its equality (src/unnamed/part_001).       *)
(*                                                                         *)
(* The COLTContext is an arena: a sequence of nodes, a PTR<T> is the index *)
(* of a node in it and 0 is nullptr.  A call that the C++ leaves undefined *)
(* (a static down-cast to the wrong class, an index past the end of a      *)
(* vector) has every outcome the build can produce, so a comparison is     *)
(* modelled by the SET of its possible outcomes:                           *)
(*   "true" / "false"  the call returns that boolean                       *)
(*   "fatal"           the call reaches colt_unreachable(...)              *)
(*   "crash"           the call dereferences a wild pointer and faults     *)
(***************************************************************************)
EXTENDS Integers, Sequences, FiniteSets, TLC

\* ------------------------------------------------------------ bounds ----
\* Most types a context holds in TypeSpec.
MaxTypes == 4
\* Most parameters of a function type.
MaxParams == 1
\* Most types a context holds in SupportsSpec.
MaxBuiltIns == 2
\* Most expressions a context holds in ExprSpec.
MaxExprs == 3
\* Most expressions a context holds in WrapSpec.
MaxWrapped == 4
\* Most statements of a scope.
MaxBody == 1
\* The largest raw value of a literal.
MaxValue == 1
\* Most errors a parse reports in ReportSpec: one more than a u16 counts.
MaxErrorReports == 65537
\* Most warnings, and most messages, a parse reports in ReportSpec.
MaxOtherReports == 1
\* Most tokens of the text ParseSpec parses.
MaxTokens == 4
\* The depth of nested scopes.
MaxScopes == 2
\* The statements of a function body.
MaxStatements == 3
\* The arguments of a function call; a function has one parameter less
\* at most.
MaxArguments == 3
\* The types, and the expressions, of a context that holds both.
MaxArena == 2
\* The errors reported while recovery is exercised on one text.
MaxRecoveries == 2
\* The characters of a line of text, the NUL not counted.
MaxLine == 3
\* The lines of a standard input.
MaxLines == 2
\* The calls of get_next_token made on one lexer.
MaxCalls == 5

VARIABLES
  types,   \* COLTContext: the types added so far, in insertion order
  cmp,     \* the last call of is_equal / is_equal_with_const and its result
  sup,     \* the last call of BuiltInType::supports and its result
  exprs,   \* COLTContext: the expressions added so far, in insertion order
  ecmp,    \* the last call of operator==(const Expr&, const Expr&) and its result
  call,    \* the last call of another function and its outcome
  ast,     \* the ASTMaker: its members, the lexer's input and position
  io,      \* the reports printed so far, by severity
  saved,   \* the SavedLocalState objects alive, the innermost last
  main     \* main(): its position, stdin, its buffer, its lexer and token

vars == <<types, cmp, sup, exprs, ecmp, call, ast, io, saved, main>>

parseVars == <<ast, io, saved, main>>

exprVars == <<exprs, ecmp>>

\* ------------------------------------------------------- type nodes ----
nullptr == 0

TypeIDs ==
  {"TYPE_ERROR", "TYPE_VOID", "TYPE_BUILTIN", "TYPE_PTR", "TYPE_FN",
   "TYPE_ARRAY", "TYPE_CLASS"}

BuiltInIDs ==
  {"U8", "U16", "U32", "U64", "U128", "I8", "I16", "I32", "I64", "I128",
   "F32", "F64", "BOOL"}

\* The binary operators the model distinguishes.
BinaryOperators ==
  {"OP_SUM", "OP_MOD", "OP_BIT_AND", "OP_LESS", "OP_BOOL_AND", "OP_EQUAL"}

\* The three static operator arrays of BuiltInType.
IntegralSupported == <<"OP_SUM", "OP_MOD", "OP_BIT_AND", "OP_LESS", "OP_EQUAL">>
FloatingSupported == <<"OP_SUM", "OP_LESS", "OP_EQUAL">>
BoolSupported == <<"OP_BOOL_AND", "OP_EQUAL">>

StaticArray(name) ==
  CASE name = "IntegralSupported" -> IntegralSupported
    [] name = "FloatingSupported" -> FloatingSupported
    [] name = "BoolSupported" -> BoolSupported
    [] OTHER -> << >>

\* ContiguousView<BinaryOperator>{ array, std::size(array) }
ContiguousView(name) == [ptr |-> name, size |-> Len(StaticArray(name))]

NoView == [ptr |-> "none", size |-> 0]

\* A Type object.  Every node carries every field; the fields of a class
\* the node does not belong to hold the defaults below and are never read
\* for a defined result.
TypeNode(ID, is_const_v, builtin_ID, valid_op, ptr_to, return_type, args_type) ==
  [ID |-> ID, is_const |-> is_const_v, builtin_ID |-> builtin_ID,
   valid_op |-> valid_op, ptr_to |-> ptr_to, return_type |-> return_type,
   args_type |-> args_type]

VoidType == TypeNode("TYPE_VOID", FALSE, "none", NoView, nullptr, nullptr, << >>)

ErrorType == TypeNode("TYPE_ERROR", FALSE, "none", NoView, nullptr, nullptr, << >>)

BuiltInType(builtin_ID, is_const_v, valid_op) ==
  TypeNode("TYPE_BUILTIN", is_const_v, builtin_ID, valid_op, nullptr, nullptr, << >>)

PtrType(is_const_v, ptr_to) ==
  TypeNode("TYPE_PTR", is_const_v, "none", NoView, ptr_to, nullptr, << >>)

FnType(return_type, args_type) ==
  TypeNode("TYPE_FN", FALSE, "none", NoView, nullptr, return_type, args_type)

\* A type whose classof() is TYPE_ARRAY or TYPE_CLASS: the two variants
\* the comparison names but does not implement.
PlaceholderType(ID, is_const_v) ==
  TypeNode(ID, is_const_v, "none", NoView, nullptr, nullptr, << >>)

BuiltInFactories ==
  {"CreateU8", "CreateU16", "CreateU32", "CreateU64", "CreateU128",
   "CreateI8", "CreateI16", "CreateI32", "CreateI64", "CreateI128",
   "CreateF32", "CreateF64", "CreateBool"}

\* BuiltInType::CreateU8 .. BuiltInType::CreateBool: the node each builds.
BuiltInFactory(fn, is_const_v) ==
  CASE fn = "CreateU8" -> BuiltInType("U8", is_const_v, ContiguousView("IntegralSupported"))
    [] fn = "CreateU16" -> BuiltInType("U16", is_const_v, ContiguousView("IntegralSupported"))
    [] fn = "CreateU32" -> BuiltInType("U32", is_const_v, ContiguousView("IntegralSupported"))
    [] fn = "CreateU64" -> BuiltInType("U64", is_const_v, ContiguousView("IntegralSupported"))
    [] fn = "CreateU128" -> BuiltInType("U128", is_const_v, ContiguousView("IntegralSupported"))
    [] fn = "CreateI8" -> BuiltInType("I8", is_const_v, ContiguousView("IntegralSupported"))
    [] fn = "CreateI16" -> BuiltInType("I16", is_const_v, ContiguousView("IntegralSupported"))
    [] fn = "CreateI32" -> BuiltInType("I32", is_const_v, ContiguousView("IntegralSupported"))
    [] fn = "CreateI64" -> BuiltInType("I64", is_const_v, ContiguousView("IntegralSupported"))
    [] fn = "CreateI128" -> BuiltInType("I128", is_const_v, ContiguousView("IntegralSupported"))
    [] fn = "CreateF32" -> BuiltInType("F32", is_const_v, ContiguousView("FloatingSupported"))
    [] fn = "CreateF64" -> BuiltInType("F64", is_const_v, ContiguousView("FloatingSupported"))
    [] fn = "CreateBool" -> BuiltInType("BOOL", is_const_v, ContiguousView("BoolSupported"))

\* The handles of the context's types.
Handles == 1..Len(types)

\* ------------------------------------------------- BuiltInType::supports
\* A mutant of supports: the scan starts at the second element.
supports_SkipFirst(t, op) ==
  \E i \in 2..types[t].valid_op.size : StaticArray(types[t].valid_op.ptr)[i] = op

\* for (i = 0; i < valid_op.get_size(); i++) if (valid_op[i] == op) return true;
\* return false;
supports(t, op) ==
  \E i \in 1..types[t].valid_op.size : StaticArray(types[t].valid_op.ptr)[i] = op

\* ------------------------------------------------------ Type::is_equal --
is_error(t) == types[t].ID = "TYPE_ERROR"

is_const(t) == types[t].is_const

Bool(b) == IF b THEN "true" ELSE "false"

\* as<PTR<const BuiltInType>>(type) on an object of another class, then
\* get_builtin_id(): the byte read is indeterminate, the comparison goes
\* either way.
IndeterminateRead == {"true", "false"}

\* as<PTR<const PtrType>>(type) / as<PTR<const FnType>>(type) on an object of
\* another class, or operator[] past the end of a parameter list: the
\* pointer read is wild; following it faults or lands on anything.
WildPointer == {"true", "false", "crash"}

RECURSIVE is_equal(_, _)
RECURSIVE is_equal_with_const(_, _)
RECURSIVE FnParamsLoop(_, _, _)

\* A mutant of ErrorTest: only the receiver is tested.
ErrorTest_ReceiverOnly(this, type) == is_error(this)

\* if (this->is_error() || type->is_error()) return true;
ErrorTest(this, type) == is_error(this) \/ is_error(type)

\* A mutant of BuiltInCase: the const flags are compared too.
BuiltInCase_WithConst(this, type) ==
  IF types[type].ID = "TYPE_BUILTIN"
  THEN {Bool(types[type].builtin_ID = types[this].builtin_ID
             /\ types[type].is_const = types[this].is_const)}
  ELSE IndeterminateRead

\* case TYPE_BUILTIN: a = type, b = this; a->get_builtin_id() == b->get_builtin_id()
BuiltInCase(this, type) ==
  IF types[type].ID = "TYPE_BUILTIN"
  THEN {Bool(types[type].builtin_ID = types[this].builtin_ID)}
  ELSE IndeterminateRead

\* A mutant of PtrCase: the pointees are compared without their const flags.
PtrCase_IgnoreConst(this, type) ==
  IF types[type].ID = "TYPE_PTR"
  THEN is_equal(types[type].ptr_to, types[this].ptr_to)
  ELSE WildPointer

\* case TYPE_PTR: a = type, b = this;
\* a->get_type_to()->is_equal_with_const(b->get_type_to())
PtrCase(this, type) ==
  IF types[type].ID = "TYPE_PTR"
  THEN is_equal_with_const(types[type].ptr_to, types[this].ptr_to)
  ELSE WildPointer

\* !a->get_return_type()->is_equal(b->get_return_type())
\*   && a->get_params_type().get_size() != b->get_params_type().get_size()
FnEarlyReturn(ret_equal, a_size, b_size) == ret_equal = "false" /\ a_size # b_size

\* for (i = 0; i < a->get_params_type().get_size(); i++)
\*   if (!a->get_params_type()[i]->is_equal(b->get_params_type()[i])) return false;
\* return true;
\* (i counts from 1 here; b's list is read at i whatever its size)
FnParamsLoop(a, b, i) ==
  IF i > Len(types[a].args_type) THEN {"true"}
  ELSE IF i > Len(types[b].args_type) THEN WildPointer
  ELSE UNION { IF r = "true" THEN FnParamsLoop(a, b, i + 1) ELSE {r}
               : r \in is_equal(types[a].args_type[i], types[b].args_type[i]) }

\* case TYPE_FN: a = type, b = this
FnCase(this, type) ==
  IF types[type].ID = "TYPE_FN"
  THEN UNION { IF r \in {"fatal", "crash"} THEN {r}
               ELSE IF FnEarlyReturn(r, Len(types[type].args_type),
                                     Len(types[this].args_type))
                    THEN {"false"}
                    ELSE FnParamsLoop(type, this, 1)
               : r \in is_equal(types[type].return_type, types[this].return_type) }
  ELSE WildPointer

\* case TYPE_FN, the loop from its i-th turn: the positions at which
\* b->get_params_type() is read, on the runs in which every comparison
\* before returned true.
RECURSIVE FnParamsRead(_, _, _)
FnParamsRead(a, b, i) ==
  IF i > Len(types[a].args_type) THEN {}
  ELSE {i} \cup
       (IF /\ i <= Len(types[b].args_type)
           /\ "true" \in is_equal(types[a].args_type[i], types[b].args_type[i])
        THEN FnParamsRead(a, b, i + 1)
        ELSE {})

\* case TYPE_FN: the positions at which the parameter list of this (b) is
\* read by this->is_equal(type); none when line 157 returns.
FnCaseReads(this, type) ==
  UNION { IF \/ r \in {"fatal", "crash"}
             \/ FnEarlyReturn(r, Len(types[type].args_type),
                              Len(types[this].args_type))
          THEN {}
          ELSE FnParamsRead(type, this, 1)
          : r \in is_equal(types[type].return_type, types[this].return_type) }

\* bool Type::is_equal(PTR<const Type> type) const: the outcomes of
\* this->is_equal(type)
is_equal(this, type) ==
  IF ErrorTest(this, type) THEN {"true"}
  ELSE CASE types[this].ID = "TYPE_VOID" -> {"true"}
         [] types[this].ID = "TYPE_BUILTIN" -> BuiltInCase(this, type)
         [] types[this].ID = "TYPE_PTR" -> PtrCase(this, type)
         [] types[this].ID = "TYPE_FN" -> FnCase(this, type)
         [] OTHER -> {"fatal"}

\* A mutant of is_equal_with_const: the const flags are not compared.
is_equal_with_const_NoFlag(this, type) == is_equal(this, type)

\* bool Type::is_equal_with_const(PTR<const Type> type) const
is_equal_with_const(this, type) ==
  IF is_const(this) # is_const(type) THEN {"false"}
  ELSE is_equal(this, type)

\* ------------------------------------------------ expression nodes ----
ExprIDs ==
  {"EXPR_BASE", "EXPR_LITERAL", "EXPR_UNARY", "EXPR_BINARY", "EXPR_CONVERT",
   "EXPR_VAR_DECL", "EXPR_VAR_READ", "EXPR_VAR_WRITE", "EXPR_FN_DEF",
   "EXPR_FN_CALL", "EXPR_FN_RETURN", "EXPR_SCOPE", "EXPR_CONDITION"}

\* std::numeric_limits<u64>::max(), the local ID of a global variable, on
\* a u64 narrowed to the values 0..U64Max.
U64Max == 2

\* The raw values, operators and names the expressions are built from.
Values == 0..MaxValue
UnaryOperators == {"OP_NEGATE", "OP_BOOL_NOT"}
ExprBinaryOperators == {"OP_SUM", "OP_MUL"}
Names == {"x", "y"}

LiteralExpr(value) == [ID |-> "EXPR_LITERAL", value |-> value]

UnaryExpr(operation, child) ==
  [ID |-> "EXPR_UNARY", operation |-> operation, child |-> child]

BinaryExpr(lhs, operation, rhs) ==
  [ID |-> "EXPR_BINARY", lhs |-> lhs, operation |-> operation, rhs |-> rhs]

ConvertExpr(to_convert) == [ID |-> "EXPR_CONVERT", to_convert |-> to_convert]

VariableDeclExpr(name, init_value, is_global) ==
  [ID |-> "EXPR_VAR_DECL", is_global_v |-> is_global,
   init_value |-> init_value, name |-> name]

\* A mutant of VariableReadExprGlobal: the local ID is left at 0.
VariableReadExprGlobal_ZeroID(name) ==
  [ID |-> "EXPR_VAR_READ", local_ID |-> 0, name |-> name]

\* VariableReadExpr(name): a read of a global
VariableReadExprGlobal(name) ==
  [ID |-> "EXPR_VAR_READ", local_ID |-> U64Max, name |-> name]

\* VariableReadExpr(name, local_ID): a read of a local
VariableReadExprLocal(name, local_ID) ==
  [ID |-> "EXPR_VAR_READ", local_ID |-> local_ID, name |-> name]

\* VariableWriteExpr(name, value): a write to a global
VariableWriteExprGlobal(name, value) ==
  [ID |-> "EXPR_VAR_WRITE", local_ID |-> U64Max, value |-> value, name |-> name]

\* VariableWriteExpr(name, value, local_ID): a write to a local
VariableWriteExprLocal(name, value, local_ID) ==
  [ID |-> "EXPR_VAR_WRITE", local_ID |-> local_ID, value |-> value, name |-> name]

\* bool is_global() const, of a VariableReadExpr or VariableWriteExpr:
\* local_ID == std::numeric_limits<u64>::max()
is_global(this) == this.local_ID = U64Max

\* The local constructors end with assert_true(!is_global(), "Invalid local
\* ID!"): the outcome of constructing this.
LocalConstructed(this) == IF is_global(this) THEN "assert" ELSE "built"

\* u64 get_local_ID() const:
\* assert_true(!is_global(), "Variable was global!"); return local_ID;
get_local_ID(this) ==
  IF is_global(this) THEN [outcome |-> "assert", value |-> 0]
  ELSE [outcome |-> "value", value |-> this.local_ID]

FnReturnExpr(to_ret) == [ID |-> "EXPR_FN_RETURN", to_ret |-> to_ret]

FnDefExpr(name, arguments_name, body) ==
  [ID |-> "EXPR_FN_DEF", body |-> body, arguments_name |-> arguments_name,
   return_list |-> << >>, name |-> name]

ScopeExpr(body_expr) == [ID |-> "EXPR_SCOPE", body_expr |-> body_expr]

ConditionExpr(if_cond, if_stmt, else_stmt) ==
  [ID |-> "EXPR_CONDITION", if_cond |-> if_cond, if_stmt |-> if_stmt,
   else_stmt |-> else_stmt]

\* Expr(ExprID ID): an expression that is only its tag.  The tags
\* EXPR_FN_CALL and EXPR_BASE have no class of their own in colt_expr.h.
Expr(ID) == [ID |-> ID]

\* The handles of the context's expressions.
ExprHandles == 1..Len(exprs)

\* ------------------------------- operator==(const Expr&, const Expr&) ----
\* PTR<const Expr> == PTR<const Expr>: two pointers are compared, the
\* nodes they point to are not.
PtrEquals(p, q) == p = q

\* case Expr::EXPR_LITERAL: return false;
LiteralCase(lhs, rhs) == "false"

UnaryCase(lhs, rhs) ==
  Bool(/\ exprs[lhs].operation = exprs[rhs].operation
       /\ PtrEquals(exprs[lhs].child, exprs[rhs].child))

BinaryCase(lhs, rhs) ==
  Bool(/\ exprs[lhs].operation = exprs[rhs].operation
       /\ PtrEquals(exprs[lhs].lhs, exprs[rhs].lhs)
       /\ PtrEquals(exprs[lhs].rhs, exprs[rhs].rhs))

ConvertCase(lhs, rhs) ==
  Bool(PtrEquals(exprs[lhs].to_convert, exprs[rhs].to_convert))

VarDeclCase(lhs, rhs) ==
  Bool(/\ exprs[lhs].name = exprs[rhs].name
       /\ exprs[lhs].is_global_v = exprs[rhs].is_global_v
       /\ PtrEquals(exprs[lhs].init_value, exprs[rhs].init_value))

VarReadCase(lhs, rhs) ==
  Bool(/\ exprs[lhs].name = exprs[rhs].name
       /\ exprs[lhs].local_ID = exprs[rhs].local_ID)

VarWriteCase(lhs, rhs) ==
  Bool(/\ exprs[lhs].name = exprs[rhs].name
       /\ exprs[lhs].local_ID = exprs[rhs].local_ID
       /\ PtrEquals(exprs[lhs].value, exprs[rhs].value))

ConditionCase(lhs, rhs) ==
  Bool(/\ PtrEquals(exprs[lhs].if_cond, exprs[rhs].if_cond)
       /\ PtrEquals(exprs[lhs].if_stmt, exprs[rhs].if_stmt)
       /\ PtrEquals(exprs[lhs].else_stmt, exprs[rhs].else_stmt))

FnReturnCase(lhs, rhs) ==
  Bool(PtrEquals(exprs[lhs].to_ret, exprs[rhs].to_ret))

\* A mutant of DefaultCase: the default returns false.
DefaultCase_ReturnFalse(lhs, rhs) == "false"

\* case Expr::EXPR_FN_CALL: default: colt_unreachable("Invalid classof()");
DefaultCase(lhs, rhs) == "fatal"

\* bool operator==(const Expr& lhs, const Expr& rhs): "true", "false", or
\* "fatal" when colt_unreachable("Invalid classof()") is reached.  The
\* case of EXPR_SCOPE holds no statement and falls through to the default.
operator_eq(lhs, rhs) ==
  IF exprs[lhs].ID # exprs[rhs].ID THEN "false"
  ELSE CASE exprs[lhs].ID = "EXPR_LITERAL" -> LiteralCase(lhs, rhs)
         [] exprs[lhs].ID = "EXPR_UNARY" -> UnaryCase(lhs, rhs)
         [] exprs[lhs].ID = "EXPR_BINARY" -> BinaryCase(lhs, rhs)
         [] exprs[lhs].ID = "EXPR_CONVERT" -> ConvertCase(lhs, rhs)
         [] exprs[lhs].ID = "EXPR_VAR_DECL" -> VarDeclCase(lhs, rhs)
         [] exprs[lhs].ID = "EXPR_VAR_READ" -> VarReadCase(lhs, rhs)
         [] exprs[lhs].ID = "EXPR_VAR_WRITE" -> VarWriteCase(lhs, rhs)
         [] exprs[lhs].ID = "EXPR_FN_DEF" -> "false"
         [] exprs[lhs].ID = "EXPR_CONDITION" -> ConditionCase(lhs, rhs)
         [] exprs[lhs].ID = "EXPR_FN_RETURN" -> FnReturnCase(lhs, rhs)
         [] OTHER -> DefaultCase(lhs, rhs)

\* ----------------------------------- colt::hash(const lang::Expr&) ----
\* size_t, narrowed to the values 0..HashMod-1.
HashMod == 8

\* GetHash of a u64, of a bool, of a pointer (its address: the handle),
\* of an operator (its enumerator) and of a StringView (its characters).
GetHashU64(v) == v % HashMod

GetHashBool(b) == IF b THEN 1 ELSE 0

GetHashPtr(p) == p % HashMod

GetHashOperator(op) ==
  CASE op = "OP_NEGATE" -> 0
    [] op = "OP_BOOL_NOT" -> 1
    [] op = "OP_SUM" -> 2
    [] op = "OP_MUL" -> 3

GetHashName(name) ==
  CASE name = "x" -> 5
    [] name = "y" -> 6

\* HashCombine(seed, v): a mix of the two, order-sensitive.
HashCombine(seed, v) == (3 * seed + v + 1) % HashMod

Returned(value) == [outcome |-> "value", value |-> value]

Unreachable == [outcome |-> "fatal", value |-> 0]

\* size_t hash(const lang::Expr& expr): the value returned, or "fatal" when
\* colt_unreachable("Invalid classof()") is reached.
hash(expr) ==
  LET e == exprs[expr]
  IN  CASE e.ID = "EXPR_LITERAL" -> Returned(GetHashU64(e.value))
        [] e.ID = "EXPR_UNARY" ->
             Returned(HashCombine(GetHashOperator(e.operation), GetHashPtr(e.child)))
        [] e.ID = "EXPR_BINARY" ->
             Returned(HashCombine(GetHashOperator(e.operation),
                        HashCombine(GetHashPtr(e.lhs), GetHashPtr(e.rhs))))
        [] e.ID = "EXPR_CONVERT" -> Returned(GetHashPtr(e.to_convert))
        [] e.ID = "EXPR_VAR_DECL" ->
             Returned(HashCombine(GetHashName(e.name),
                        HashCombine(GetHashBool(e.is_global_v), GetHashPtr(e.init_value))))
        [] e.ID = "EXPR_VAR_READ" ->
             Returned(HashCombine(GetHashName(e.name), GetHashU64(e.local_ID)))
        [] e.ID = "EXPR_VAR_WRITE" ->
             Returned(HashCombine(GetHashName(e.name),
                        HashCombine(GetHashU64(e.local_ID), GetHashPtr(e.value))))
        [] e.ID = "EXPR_FN_DEF" -> Returned(0)
        [] e.ID = "EXPR_CONDITION" ->
             Returned(HashCombine(GetHashPtr(e.if_cond),
                        HashCombine(GetHashPtr(e.if_stmt), GetHashPtr(e.else_stmt))))
        [] e.ID = "EXPR_FN_RETURN" -> Returned(GetHashPtr(e.to_ret))
        [] e.ID = "EXPR_SCOPE" -> Returned(0)
        [] OTHER -> Unreachable

\* ---------------------------------------------------------- ASTMaker ----
\* The tokens the lexer produces.
Tokens ==
  {"TKN_PLUS", "TKN_MINUS", "TKN_STAR", "TKN_COMMA", "TKN_SEMICOLON",
   "TKN_EOF", "TKN_ERROR", "TKN_LEFT_PAREN", "TKN_RIGHT_PAREN", "TKN_COLON",
   "TKN_LEFT_CURLY", "TKN_RIGHT_CURLY", "TKN_IDENTIFIER", "TKN_I64_L"}

\* u16, the type of error_count and warn_count.
U16Max == 65535

\* ASTMaker(strv, ctx): the members as they are declared, the lexer being
\* the tokens of strv and the position of current_tkn in them.
ASTMaker(strv) ==
  [expressions |-> << >>, error_count |-> 0, warn_count |-> 0,
   lexer |-> strv, current |-> 1,
   local_var_table |-> << >>, global_map |-> << >>]

\* Nothing was printed.
NoReport == [ERROR |-> 0, WARNING |-> 0, MESSAGE |-> 0]

\* What a parsing function works on: the ASTMaker, the context's
\* expressions and the reports printed.
World(a, e, r) == [ast |-> a, exprs |-> e, io |-> r]

\* Token current_tkn; past the end of the input the lexer yields TKN_EOF.
current_tkn(w) ==
  IF w.ast.current <= Len(w.ast.lexer) THEN w.ast.lexer[w.ast.current]
  ELSE "TKN_EOF"

\* void consume_current_tkn(): current_tkn becomes the next token.
consume_current_tkn(w) ==
  IF w.ast.current <= Len(w.ast.lexer)
  THEN [w EXCEPT !.ast.current = @ + 1]
  ELSE w

\* The first position at or after i whose token is in stop, or the end.
RECURSIVE SkipTo(_, _, _)
SkipTo(lexer, i, stop) ==
  IF i > Len(lexer) \/ lexer[i] \in stop THEN i
  ELSE SkipTo(lexer, i + 1, stop)

\* bool is_valid_scope_begin() const
is_valid_scope_begin(tkn) == tkn = "TKN_COLON" \/ tkn = "TKN_LEFT_CURLY"

\* The methods a panic_consume_t points to, and nullptr.
PanicRoutines ==
  {"nullptr", "panic_consume_semicolon", "panic_consume_fn_decl",
   "panic_consume_rparen"}

\* A mutant of panic_consume: panic_consume_fn_decl runs over the ':' or
\* '{' that begins a scope.
panic_consume_NoScopeBegin(w, panic_c) ==
  CASE panic_c \in {"panic_consume_semicolon", "panic_consume_fn_decl"} ->
         [w EXCEPT !.ast.current = SkipTo(w.ast.lexer, @, {"TKN_SEMICOLON"})]
    [] panic_c = "panic_consume_rparen" ->
         [w EXCEPT !.ast.current = SkipTo(w.ast.lexer, @, {"TKN_RIGHT_PAREN"})]
    [] OTHER -> w

\* (*this.*panic_c)(): tokens are consumed till one of the routine's stop
\* set, or TKN_EOF, is the current token.
panic_consume(w, panic_c) ==
  CASE panic_c = "panic_consume_semicolon" ->
         [w EXCEPT !.ast.current = SkipTo(w.ast.lexer, @, {"TKN_SEMICOLON"})]
    [] panic_c = "panic_consume_fn_decl" ->
         [w EXCEPT !.ast.current =
            SkipTo(w.ast.lexer, @, {"TKN_SEMICOLON", "TKN_COLON", "TKN_LEFT_CURLY"})]
    [] panic_c = "panic_consume_rparen" ->
         [w EXCEPT !.ast.current = SkipTo(w.ast.lexer, @, {"TKN_RIGHT_PAREN"})]
    [] OTHER -> w

\* The three severities of report_as.
Severities == {"ERROR", "WARNING", "MESSAGE"}

\* template<report_as as> void generate_any(src_info, panic_c, fmt, args...):
\* the report is printed, ++error_count on the u16 if it is an error, then
\* the panic routine runs if there is one.
generate_any(w, as, panic_c) ==
  panic_consume(
    [w EXCEPT !.io[as] = @ + 1,
              !.ast.error_count =
                 IF as = "ERROR" THEN (@ + 1) % (U16Max + 1) ELSE @],
    panic_c)

\* template<report_as as> void generate_any_current(panic_c, fmt, args...):
\* as generate_any, the source information being that of the current lexeme.
generate_any_current(w, as, panic_c) ==
  panic_consume(
    [w EXCEPT !.io[as] = @ + 1,
              !.ast.error_count =
                 IF as = "ERROR" THEN (@ + 1) % (U16Max + 1) ELSE @],
    panic_c)

\* bool check_and_consume(Token expected, panic_consume_t panic, fmt, args...);
\* the overload without panic passes panic_consume_semicolon.
check_and_consume(w, expected, panic) ==
  IF current_tkn(w) = expected
  THEN [w |-> consume_current_tkn(w), ret |-> FALSE]
  ELSE [w |-> generate_any_current(w, "ERROR", panic), ret |-> TRUE]

\* ------------------------------------------------ expression parsing ----
\* The tokens that are binary operators.
BinaryOperatorTokens == {"TKN_PLUS", "TKN_MINUS", "TKN_STAR"}

\* ')' ',' ';' and the error token.
Delimiters == {"TKN_RIGHT_PAREN", "TKN_COMMA", "TKN_SEMICOLON", "TKN_ERROR"}

\* The precedence of a token that is not an operator.
NotAnOperator == 255

\* A mutant of GetOpPrecedence: ';' is given the lowest precedence of an
\* operator.
GetOpPrecedence_SemicolonZero(tkn) ==
  CASE tkn \in {"TKN_PLUS", "TKN_MINUS"} -> 10
    [] tkn = "TKN_STAR" -> 11
    [] tkn = "TKN_SEMICOLON" -> 0
    [] OTHER -> NotAnOperator

\* A mutant of GetOpPrecedence: ',' is taken for an operator of the
\* precedence of '+'.
GetOpPrecedence_CommaOperator(tkn) ==
  CASE tkn \in {"TKN_PLUS", "TKN_MINUS", "TKN_COMMA"} -> 10
    [] tkn = "TKN_STAR" -> 11
    [] OTHER -> NotAnOperator

\* u8 GetOpPrecedence(Token tkn): the precedence of an operator, or 255.
GetOpPrecedence(tkn) ==
  CASE tkn \in {"TKN_PLUS", "TKN_MINUS"} -> 10
    [] tkn = "TKN_STAR" -> 11
    [] OTHER -> NotAnOperator

\* BinaryOperator TokenToBinaryOperator(Token)
TokenToBinaryOperator(tkn) ==
  CASE tkn = "TKN_PLUS" -> "OP_SUM"
    [] tkn = "TKN_MINUS" -> "OP_SUB"
    [] tkn = "TKN_STAR" -> "OP_MUL"
    [] OTHER -> "OP_INVALID"

\* ErrorExpr, the placeholder a parsing function returns after an error.
ErrorExpr == [ID |-> "EXPR_ERROR"]

\* T::CreateExpr(..., ctx): the node enters the context of w; ret is its
\* handle.
Created(w, node) ==
  [w |-> [w EXCEPT !.exprs = Append(@, node)], ret |-> Len(w.exprs) + 1]

\* parse_binary: the condition of its loop, on the precedence of the
\* current token and the precedence the function was called with.  A
\* binary operator of precedence >= precedence is consumed; the sentinel of
\* a token that is not an operator ends the loop.
BinaryLoopContinues(op_precedence, precedence) ==
  /\ op_precedence # NotAnOperator
  /\ op_precedence >= precedence

RECURSIVE parse_primary(_)
RECURSIVE parse_unary(_)
RECURSIVE parse_binary(_, _)
RECURSIVE parse_binary_loop(_, _, _)
RECURSIVE parse_parenthesis(_)

\* template RetT parse_parenthesis(method_ptr, args...), with
\* method_ptr = &ASTMaker::parse_binary and its default precedence 0.
parse_parenthesis(w) ==
  LET opened == check_and_consume(w, "TKN_LEFT_PAREN", "panic_consume_semicolon").w
      to_ret == parse_binary(opened, 0)
  IN  IF current_tkn(to_ret.w) # "TKN_RIGHT_PAREN"
      THEN [w |-> generate_any(to_ret.w, "ERROR", "panic_consume_semicolon"),
            ret |-> to_ret.ret]
      ELSE [w |-> consume_current_tkn(to_ret.w), ret |-> to_ret.ret]

\* PTR<Expr> parse_unary(): the operator is consumed and the operand parsed.
parse_unary(w) ==
  LET child == parse_primary(consume_current_tkn(w))
  IN  Created(child.w, UnaryExpr("OP_NEGATE", child.ret))

\* PTR<Expr> parse_primary(): a literal, an expression in parentheses or a
\* unary expression; on any other token an error is reported and an
\* ErrorExpr returned.  The value of a literal is that of its lexeme, which
\* is taken to be the position of the token.
parse_primary(w) ==
  CASE current_tkn(w) = "TKN_I64_L" ->
         Created(consume_current_tkn(w), LiteralExpr(w.ast.current))
    [] current_tkn(w) = "TKN_LEFT_PAREN" -> parse_parenthesis(w)
    [] current_tkn(w) = "TKN_MINUS" -> parse_unary(w)
    [] OTHER ->
         Created(generate_any_current(w, "ERROR", "panic_consume_semicolon"),
                 ErrorExpr)

\* parse_binary: the loop.  binary_op is the current token.
parse_binary_loop(w, lhs, precedence) ==
  LET binary_op == current_tkn(w)
      op_precedence == GetOpPrecedence(binary_op)
  IN  IF ~BinaryLoopContinues(op_precedence, precedence)
      THEN [w |-> w, ret |-> lhs]
      ELSE LET rhs == parse_binary(consume_current_tkn(w), op_precedence)
               folded == Created(rhs.w,
                           BinaryExpr(lhs, TokenToBinaryOperator(binary_op), rhs.ret))
           IN  parse_binary_loop(folded.w, folded.ret, precedence)

\* PTR<Expr> parse_binary(u8 precedence = 0)
parse_binary(w, precedence) ==
  LET lhs == parse_primary(w)
  IN  parse_binary_loop(lhs.w, lhs.ret, precedence)

\* ------------------------------------------------------------ state ----
NoCmp == [op |-> "none", this |-> nullptr, type |-> nullptr, result |-> "none"]

NoSup == [type |-> nullptr, op |-> "none", result |-> FALSE]

NoECmp == [lhs |-> nullptr, rhs |-> nullptr, result |-> "none"]

\* outcome: "value" (the call returned value), "built" (the constructor
\* returned and the node is expr), "fatal" (colt_unreachable was reached),
\* "assert" (an assert_true failed).
NoCall ==
  [op |-> "none", expr |-> nullptr, arg |-> 0, outcome |-> "none", value |-> 0]

\* char buffer[2500], never written: line is the line of stdin it holds, 0
\* for none; fresh, whether the last fgets wrote it.
Unwritten == [line |-> 0, fresh |-> FALSE, text |-> << >>]

\* main() is not being run.
NoMain ==
  [pc |-> "none", stdin |-> << >>, terminated |-> TRUE, read |-> 0,
   eof |-> FALSE, buffer |-> Unwritten, lexer |-> "none", tkn |-> "none",
   tokenized |-> << >>]

Init ==
  /\ types = << >>
  /\ cmp = NoCmp
  /\ sup = NoSup
  /\ exprs = << >>
  /\ ecmp = NoECmp
  /\ call = NoCall
  /\ ast = ASTMaker(<< >>)
  /\ io = NoReport
  /\ saved = << >>
  /\ main = NoMain

\* The program is single-threaded: no call is in progress, so the next
\* operation may start.
Idle == cmp = NoCmp /\ sup = NoSup /\ ecmp = NoECmp /\ call = NoCall

\* COLTContext::add_type: the context takes the node; the handle returned
\* is that of the new last node.
add_type(node) == types' = Append(types, node)

\* The built-in factories TypeSpec draws from: two scalar kinds.
ComparedFactories == {"CreateU8", "CreateF32"}

\* The sequences of at most n handles.
ParamLists(n) == UNION { [1..k -> Handles] : k \in 0..n }

CreateVoidType ==
  /\ Idle
  /\ Len(types) < MaxTypes
  /\ add_type(VoidType)
  /\ UNCHANGED <<cmp, sup, exprVars, call, parseVars>>

CreateErrorType ==
  /\ Idle
  /\ Len(types) < MaxTypes
  /\ add_type(ErrorType)
  /\ UNCHANGED <<cmp, sup, exprVars, call, parseVars>>

CreateBuiltIn ==
  /\ Idle
  /\ Len(types) < MaxTypes
  /\ \E fn \in ComparedFactories, is_const_v \in BOOLEAN :
       add_type(BuiltInFactory(fn, is_const_v))
  /\ UNCHANGED <<cmp, sup, exprVars, call, parseVars>>

CreatePtr ==
  /\ Idle
  /\ Len(types) < MaxTypes
  /\ \E is_const_v \in BOOLEAN, ptr_to \in Handles :
       add_type(PtrType(is_const_v, ptr_to))
  /\ UNCHANGED <<cmp, sup, exprVars, call, parseVars>>

CreateFn ==
  /\ Idle
  /\ Len(types) < MaxTypes
  /\ \E return_type \in Handles, args_type \in ParamLists(MaxParams) :
       add_type(FnType(return_type, args_type))
  /\ UNCHANGED <<cmp, sup, exprVars, call, parseVars>>

CreatePlaceholder ==
  /\ Idle
  /\ Len(types) < MaxTypes
  /\ \E ID \in {"TYPE_ARRAY", "TYPE_CLASS"}, is_const_v \in BOOLEAN :
       add_type(PlaceholderType(ID, is_const_v))
  /\ UNCHANGED <<cmp, sup, exprVars, call, parseVars>>

\* A call this->is_equal(type) on two types of the context.
IsEqual ==
  /\ Idle
  /\ \E this \in Handles, type \in Handles :
       \E r \in is_equal(this, type) :
         cmp' = [op |-> "is_equal", this |-> this, type |-> type, result |-> r]
  /\ UNCHANGED <<types, sup, exprVars, call, parseVars>>

\* A call this->is_equal_with_const(type) on two types of the context.
IsEqualWithConst ==
  /\ Idle
  /\ \E this \in Handles, type \in Handles :
       \E r \in is_equal_with_const(this, type) :
         cmp' = [op |-> "is_equal_with_const", this |-> this, type |-> type,
                 result |-> r]
  /\ UNCHANGED <<types, sup, exprVars, call, parseVars>>

\* The caller takes the value a call returned and goes on; a call that
\* ended "fatal" or "crash" ended the process.
Resume ==
  /\ ~Idle
  /\ cmp.result \notin {"fatal", "crash"}
  /\ call.op \notin {"CreateAST", "parse_binary"}
  /\ cmp' = NoCmp
  /\ ecmp.result \notin {"fatal"}
  /\ call.outcome \notin {"fatal", "assert", "crash"}
  /\ sup' = NoSup
  /\ ecmp' = NoECmp
  /\ call' = NoCall
  /\ UNCHANGED <<types, exprs, parseVars>>

TypeNext ==
  \/ CreateVoidType
  \/ CreateErrorType
  \/ CreateBuiltIn
  \/ CreatePtr
  \/ CreateFn
  \/ CreatePlaceholder
  \/ IsEqual
  \/ IsEqualWithConst
  \/ Resume

\* The type system under comparison.
TypeSpec == Init /\ [][TypeNext]_vars

\* Any of the thirteen built-in factories, either const flag.
CreateAnyBuiltIn ==
  /\ Idle
  /\ Len(types) < MaxBuiltIns
  /\ \E fn \in BuiltInFactories, is_const_v \in BOOLEAN :
       add_type(BuiltInFactory(fn, is_const_v))
  /\ UNCHANGED <<cmp, sup, exprVars, call, parseVars>>

\* A call t->supports(op) on a built-in type of the context.
Supports ==
  /\ Idle
  /\ \E t \in Handles, op \in BinaryOperators :
       /\ types[t].ID = "TYPE_BUILTIN"
       /\ sup' = [type |-> t, op |-> op, result |-> supports(t, op)]
  /\ UNCHANGED <<types, cmp, exprVars, call, parseVars>>

SupportsNext ==
  \/ CreateAnyBuiltIn
  \/ Supports
  \/ Resume

\* The built-in types and their operator support.
SupportsSpec == Init /\ [][SupportsNext]_vars

\* ------------------------------------------------ expression actions ----
\* A mutant of add_expr: the node is put in front, moving the others.
add_expr_Front(node) == exprs' = <<node>> \o exprs

\* COLTContext::add_expr: the context takes the node; the handle returned
\* is that of the new last node.
add_expr(node) == exprs' = Append(exprs, node)

\* A handle or nullptr.
Nullable(handles) == handles \cup {nullptr}

\* The argument names of a function: none, or one.
ArgumentNames == {<< >>} \cup { <<n>> : n \in Names }

\* The bodies of a scope: at most n statements.
Bodies(n) == UNION { [1..k -> ExprHandles] : k \in 0..n }

CreateLiteral(max) ==
  /\ Idle
  /\ Len(exprs) < max
  /\ \E value \in Values : add_expr(LiteralExpr(value))
  /\ UNCHANGED <<types, cmp, sup, ecmp, call, parseVars>>

CreateUnary(max) ==
  /\ Idle
  /\ Len(exprs) < max
  /\ \E operation \in UnaryOperators, child \in ExprHandles :
       add_expr(UnaryExpr(operation, child))
  /\ UNCHANGED <<types, cmp, sup, ecmp, call, parseVars>>

CreateBinary(max) ==
  /\ Idle
  /\ Len(exprs) < max
  /\ \E lhs \in ExprHandles, operation \in ExprBinaryOperators, rhs \in ExprHandles :
       add_expr(BinaryExpr(lhs, operation, rhs))
  /\ UNCHANGED <<types, cmp, sup, ecmp, call, parseVars>>

CreateConvert(max) ==
  /\ Idle
  /\ Len(exprs) < max
  /\ \E to_convert \in ExprHandles : add_expr(ConvertExpr(to_convert))
  /\ UNCHANGED <<types, cmp, sup, ecmp, call, parseVars>>

CreateVarDecl(max) ==
  /\ Idle
  /\ Len(exprs) < max
  /\ \E name \in Names, init_value \in Nullable(ExprHandles), is_global_v \in BOOLEAN :
       add_expr(VariableDeclExpr(name, init_value, is_global_v))
  /\ UNCHANGED <<types, cmp, sup, ecmp, call, parseVars>>

\* A constructor call returned (or asserted): the record of it.
Constructed(op, arg, outcome) ==
  [op |-> op, expr |-> IF outcome = "built" THEN Len(exprs) + 1 ELSE nullptr,
   arg |-> arg, outcome |-> outcome, value |-> 0]

\* make_unique<T>(...) then ctx.add_expr: the node enters the context
\* unless its constructor asserted.
add_constructed(node, outcome) ==
  IF outcome = "built" THEN add_expr(node) ELSE UNCHANGED exprs

\* VarReadExpr::CreateExpr, both overloads; the local ID is any u64.
CreateVarRead(max) ==
  /\ Idle
  /\ Len(exprs) < max
  /\ \E name \in Names :
       \/ /\ add_expr(VariableReadExprGlobal(name))
          /\ call' = Constructed("VarReadExpr(name)", U64Max, "built")
       \/ \E ID \in 0..U64Max :
            LET this == VariableReadExprLocal(name, ID)
            IN  /\ add_constructed(this, LocalConstructed(this))
                /\ call' = Constructed("VarReadExpr(name, local_ID)", ID,
                                       LocalConstructed(this))
  /\ UNCHANGED <<types, cmp, sup, ecmp, parseVars>>

\* VarWriteExpr::CreateExpr, both overloads; the local ID is any u64.
CreateVarWrite(max) ==
  /\ Idle
  /\ Len(exprs) < max
  /\ \E name \in Names, value \in ExprHandles :
       \/ /\ add_expr(VariableWriteExprGlobal(name, value))
          /\ call' = Constructed("VarWriteExpr(name, value)", U64Max, "built")
       \/ \E ID \in 0..U64Max :
            LET this == VariableWriteExprLocal(name, value, ID)
            IN  /\ add_constructed(this, LocalConstructed(this))
                /\ call' = Constructed("VarWriteExpr(name, value, local_ID)", ID,
                                       LocalConstructed(this))
  /\ UNCHANGED <<types, cmp, sup, ecmp, parseVars>>

\* A call of get_local_ID() on a read or a write of the context.
GetLocalID ==
  /\ Idle
  /\ \E expr \in ExprHandles :
       /\ exprs[expr].ID \in {"EXPR_VAR_READ", "EXPR_VAR_WRITE"}
       /\ call' = [op |-> "get_local_ID", expr |-> expr, arg |-> 0,
                   outcome |-> get_local_ID(exprs[expr]).outcome,
                   value |-> get_local_ID(exprs[expr]).value]
  /\ UNCHANGED <<types, cmp, sup, exprs, ecmp, parseVars>>

CreateFnReturn(max) ==
  /\ Idle
  /\ Len(exprs) < max
  /\ \E to_ret \in Nullable(ExprHandles) : add_expr(FnReturnExpr(to_ret))
  /\ UNCHANGED <<types, cmp, sup, ecmp, call, parseVars>>

CreateFnDef(max) ==
  /\ Idle
  /\ Len(exprs) < max
  /\ \E name \in Names, arguments_name \in ArgumentNames,
        body \in Nullable(ExprHandles) :
       add_expr(FnDefExpr(name, arguments_name, body))
  /\ UNCHANGED <<types, cmp, sup, ecmp, call, parseVars>>

CreateScope(max) ==
  /\ Idle
  /\ Len(exprs) < max
  /\ \E body \in Bodies(MaxBody) : add_expr(ScopeExpr(body))
  /\ UNCHANGED <<types, cmp, sup, ecmp, call, parseVars>>

CreateCondition(max) ==
  /\ Idle
  /\ Len(exprs) < max
  /\ \E if_cond \in ExprHandles, if_stmt \in ExprHandles,
        else_stmt \in Nullable(ExprHandles) :
       add_expr(ConditionExpr(if_cond, if_stmt, else_stmt))
  /\ UNCHANGED <<types, cmp, sup, ecmp, call, parseVars>>

\* An expression of a tag operator== and hash do not handle enters the
\* context: a function call, or a bare Expr.
CreateUnhandled(max) ==
  /\ Idle
  /\ Len(exprs) < max
  /\ \E ID \in {"EXPR_FN_CALL", "EXPR_BASE"} : add_expr(Expr(ID))
  /\ UNCHANGED <<types, cmp, sup, ecmp, call, parseVars>>

\* A call hash(expr) on an expression of the context.
Hash ==
  /\ Idle
  /\ \E expr \in ExprHandles :
       call' = [op |-> "hash", expr |-> expr, arg |-> 0,
                outcome |-> hash(expr).outcome, value |-> hash(expr).value]
  /\ UNCHANGED <<types, cmp, sup, exprs, ecmp, parseVars>>

\* A call lhs == rhs on two expressions of the context.
ExprEquals ==
  /\ Idle
  /\ \E lhs \in ExprHandles, rhs \in ExprHandles :
       ecmp' = [lhs |-> lhs, rhs |-> rhs, result |-> operator_eq(lhs, rhs)]
  /\ UNCHANGED <<types, cmp, sup, exprs, call, parseVars>>

ExprNext ==
  \/ CreateLiteral(MaxExprs)
  \/ CreateUnary(MaxExprs)
  \/ CreateBinary(MaxExprs)
  \/ CreateConvert(MaxExprs)
  \/ CreateVarDecl(MaxExprs)
  \/ CreateVarRead(MaxExprs)
  \/ CreateVarWrite(MaxExprs)
  \/ CreateFnReturn(MaxExprs)
  \/ CreateFnDef(MaxExprs)
  \/ CreateScope(MaxExprs)
  \/ CreateCondition(MaxExprs)
  \/ CreateUnhandled(MaxExprs)
  \/ ExprEquals
  \/ Hash
  \/ GetLocalID
  \/ Resume

\* The expressions of every class under comparison.
ExprSpec == Init /\ [][ExprNext]_vars

WrapNext ==
  \/ CreateVarRead(MaxWrapped)
  \/ CreateUnary(MaxWrapped)
  \/ CreateConvert(MaxWrapped)
  \/ CreateFnReturn(MaxWrapped)
  \/ ExprEquals
  \/ Resume

\* Reads of variables under wrappers of one child, to a greater depth.
WrapSpec == Init /\ [][WrapNext]_vars

\* Every factory of types and of expressions, on one context of at most
\* MaxArena types and MaxArena expressions.
ArenaNext ==
  \/ (Len(types) < MaxArena /\ CreateVoidType)
  \/ (Len(types) < MaxArena /\ CreateErrorType)
  \/ (Len(types) < MaxArena /\ CreateBuiltIn)
  \/ (Len(types) < MaxArena /\ CreatePtr)
  \/ (Len(types) < MaxArena /\ CreateFn)
  \/ (Len(types) < MaxArena /\ CreatePlaceholder)
  \/ CreateLiteral(MaxArena)
  \/ CreateUnary(MaxArena)
  \/ CreateBinary(MaxArena)
  \/ CreateConvert(MaxArena)
  \/ CreateVarDecl(MaxArena)
  \/ CreateVarRead(MaxArena)
  \/ CreateVarWrite(MaxArena)
  \/ CreateFnReturn(MaxArena)
  \/ CreateFnDef(MaxArena)
  \/ CreateScope(MaxArena)
  \/ CreateCondition(MaxArena)
  \/ Resume

\* The context as the factories fill it.
ArenaSpec == Init /\ [][ArenaNext]_vars

\* ------------------------------------------------ claims on the types --
\* A type built from the variants Void, BuiltIn, Pointer, Function and
\* Error only, its pointee, return type and parameters included.
RECURSIVE Plain(_)
Plain(t) ==
  CASE types[t].ID \in {"TYPE_VOID", "TYPE_BUILTIN", "TYPE_ERROR"} -> TRUE
    [] types[t].ID = "TYPE_PTR" -> Plain(types[t].ptr_to)
    [] types[t].ID = "TYPE_FN" ->
         /\ Plain(types[t].return_type)
         /\ \A i \in 1..Len(types[t].args_type) : Plain(types[t].args_type[i])
    [] OTHER -> FALSE

\* The last call was this->is_equal(type) and the C++ fixes its result.
DeterminedIsEqual ==
  /\ cmp.op = "is_equal"
  /\ is_equal(cmp.this, cmp.type) = {cmp.result}

\* C1: two function types, neither the error sentinel, are is_equal if and
\* only if their return types are is_equal, their parameter lists have the
\* same length and the parameters at each position are is_equal.
C1_FnEqualIffReturnAndParams ==
  (/\ DeterminedIsEqual
   /\ types[cmp.this].ID = "TYPE_FN"
   /\ types[cmp.type].ID = "TYPE_FN")
  => LET f == types[cmp.this]
         g == types[cmp.type]
     IN  (cmp.result = "true")
         <=> /\ is_equal(g.return_type, f.return_type) = {"true"}
             /\ Len(f.args_type) = Len(g.args_type)
             /\ \A i \in 1..Len(g.args_type) :
                  is_equal(g.args_type[i], f.args_type[i]) = {"true"}

\* C2: is_equal is reflexive and symmetric over the types built from Void,
\* BuiltIn, Pointer, Function and Error: a.is_equal(a) is true, and
\* b.is_equal(a) is whatever a.is_equal(b) returned.
C2_ReflexiveSymmetric ==
  (/\ cmp.op = "is_equal"
   /\ Plain(cmp.this)
   /\ Plain(cmp.type))
  => /\ cmp.this = cmp.type => cmp.result = "true"
     /\ is_equal(cmp.type, cmp.this) = {cmp.result}

\* C3: is_equal returns true whenever the receiver or the argument is the
\* Error sentinel, whatever the other operand is.
C3_ErrorEqualsAnything ==
  (/\ cmp.op = "is_equal"
   /\ (is_error(cmp.this) \/ is_error(cmp.type)))
  => cmp.result = "true"

\* C3's case: an Array or Class placeholder compared with the sentinel.
C3_Witness ==
  /\ cmp.op = "is_equal"
  /\ types[cmp.this].ID \in {"TYPE_ARRAY", "TYPE_CLASS"}
  /\ is_const(cmp.this)
  /\ is_error(cmp.type)
  /\ cmp.result = "true"

C5_BuiltInEqualIffSameID ==
  (/\ cmp.op = "is_equal"
   /\ types[cmp.this].ID = "TYPE_BUILTIN"
   /\ types[cmp.type].ID = "TYPE_BUILTIN")
  => cmp.result = Bool(types[cmp.this].builtin_ID = types[cmp.type].builtin_ID)

\* C5's case: the same scalar kind with different const flags.
C5_Witness ==
  /\ cmp.op = "is_equal"
  /\ types[cmp.this].ID = "TYPE_BUILTIN"
  /\ types[cmp.type].ID = "TYPE_BUILTIN"
  /\ types[cmp.this].builtin_ID = types[cmp.type].builtin_ID
  /\ is_const(cmp.this) # is_const(cmp.type)
  /\ cmp.result = "true"

\* C6: a.is_equal_with_const(b) is true if and only if the const flags of
\* a and b agree and a.is_equal(b); a flag that differs gives false, the
\* Error sentinel included.
C6_EqualWithConstIffFlagsAndEqual ==
  cmp.op = "is_equal_with_const"
  => /\ is_const(cmp.this) # is_const(cmp.type) => cmp.result = "false"
     /\ is_const(cmp.this) = is_const(cmp.type)
          => cmp.result \in is_equal(cmp.this, cmp.type)
     /\ cmp.result = "true" => "true" \in is_equal(cmp.this, cmp.type)

\* C6's case: a const type against the Error sentinel.
C6_Witness ==
  /\ cmp.op = "is_equal_with_const"
  /\ is_const(cmp.this)
  /\ is_error(cmp.type)
  /\ cmp.result = "false"

\* C7: on operands built from Void, BuiltIn, Pointer, Function and Error,
\* is_equal and is_equal_with_const return a boolean; and the fatal branch
\* is reached only with an Array or Class type in an operand.
C7_TotalOnFiveVariants ==
  cmp.op # "none"
  => /\ (Plain(cmp.this) /\ Plain(cmp.type)) => cmp.result \in {"true", "false"}
     /\ cmp.result = "fatal" => ~(Plain(cmp.this) /\ Plain(cmp.type))

\* ------------------------------------------------- claims on supports --
\* The operator array of a scalar kind's category.
CategoryArray(builtin_ID) ==
  IF builtin_ID \in {"F32", "F64"} THEN "FloatingSupported"
  ELSE IF builtin_ID = "BOOL" THEN "BoolSupported"
  ELSE "IntegralSupported"

Elements(seq) == { seq[i] : i \in 1..Len(seq) }

\* C8: supports(op) is true if and only if op occurs in the operator list
\* of the type, which is the list of its scalar category whatever the const
\* flag; two built-in types of one category support the same operators.
C8_SupportsIffInCategoryList ==
  /\ \A t \in Handles :
       types[t].valid_op = ContiguousView(CategoryArray(types[t].builtin_ID))
  /\ sup.type # nullptr
       => sup.result =
            (sup.op \in Elements(StaticArray(CategoryArray(types[sup.type].builtin_ID))))
  /\ \A t \in Handles, u \in Handles :
       CategoryArray(types[t].builtin_ID) = CategoryArray(types[u].builtin_ID)
         => \A op \in BinaryOperators : supports(t, op) = supports(u, op)

\* C8's case: a const F32 and a non-const F64, and an operator F32 supports.
C8_Witness ==
  /\ Len(types) = 2
  /\ types[1].builtin_ID = "F32" /\ types[1].is_const
  /\ types[2].builtin_ID = "F64" /\ ~types[2].is_const
  /\ sup.type = 1
  /\ sup.op = "OP_SUM"
  /\ sup.result

\* ------------------------------------------ claims on the expressions --
\* The children of an expression, nullptr included where a child is absent.
Children(e) ==
  CASE exprs[e].ID = "EXPR_UNARY" -> <<exprs[e].child>>
    [] exprs[e].ID = "EXPR_BINARY" -> <<exprs[e].lhs, exprs[e].rhs>>
    [] exprs[e].ID = "EXPR_CONVERT" -> <<exprs[e].to_convert>>
    [] exprs[e].ID = "EXPR_VAR_DECL" -> <<exprs[e].init_value>>
    [] exprs[e].ID = "EXPR_VAR_WRITE" -> <<exprs[e].value>>
    [] exprs[e].ID = "EXPR_FN_RETURN" -> <<exprs[e].to_ret>>
    [] exprs[e].ID = "EXPR_CONDITION" ->
         <<exprs[e].if_cond, exprs[e].if_stmt, exprs[e].else_stmt>>
    [] OTHER -> << >>

\* The fields of an expression that are not children.
SemanticFields(e) ==
  CASE exprs[e].ID = "EXPR_LITERAL" -> <<exprs[e].value>>
    [] exprs[e].ID \in {"EXPR_UNARY", "EXPR_BINARY"} -> <<exprs[e].operation>>
    [] exprs[e].ID = "EXPR_VAR_DECL" -> <<exprs[e].name, exprs[e].is_global_v>>
    [] exprs[e].ID \in {"EXPR_VAR_READ", "EXPR_VAR_WRITE"} ->
         <<exprs[e].name, exprs[e].local_ID>>
    [] OTHER -> << >>

\* Structural equality as the specification words it: the same variant,
\* equal semantic fields and recursively-equal children.
RECURSIVE StructurallyEqual(_, _)
StructurallyEqual(l, r) ==
  IF l = nullptr \/ r = nullptr THEN l = r
  ELSE /\ exprs[l].ID = exprs[r].ID
       /\ SemanticFields(l) = SemanticFields(r)
       /\ \A i \in 1..Len(Children(l)) :
            StructurallyEqual(Children(l)[i], Children(r)[i])

StructuralIDs ==
  {"EXPR_UNARY", "EXPR_BINARY", "EXPR_CONVERT", "EXPR_VAR_DECL",
   "EXPR_VAR_READ", "EXPR_VAR_WRITE", "EXPR_FN_RETURN", "EXPR_CONDITION"}

\* An expression of the variants of C9, its children included.
RECURSIVE Structural(_)
Structural(e) ==
  \/ e = nullptr
  \/ /\ exprs[e].ID \in StructuralIDs
     /\ \A i \in 1..Len(Children(e)) : Structural(Children(e)[i])

\* C9: operator== is structural on Unary, Binary, Convert, VarDecl,
\* VarRead, VarWrite, FnReturn and Condition: two nodes are equal if and
\* only if they have the same variant, equal semantic fields and
\* recursively-equal children; nodes of different variants are not equal.
C9_StructuralEquality ==
  (/\ ecmp.result # "none"
   /\ Structural(ecmp.lhs)
   /\ Structural(ecmp.rhs))
  => /\ (ecmp.result = "true") <=> StructurallyEqual(ecmp.lhs, ecmp.rhs)
     /\ exprs[ecmp.lhs].ID # exprs[ecmp.rhs].ID => ecmp.result = "false"

\* C10: two literals are equal if and only if their raw values are equal;
\* a literal is equal to itself.
C10_LiteralEqualIffSameValue ==
  (/\ ecmp.result # "none"
   /\ exprs[ecmp.lhs].ID = "EXPR_LITERAL"
   /\ exprs[ecmp.rhs].ID = "EXPR_LITERAL")
  => (ecmp.result = "true") <=> (exprs[ecmp.lhs].value = exprs[ecmp.rhs].value)

\* C11: two Scope expressions compared with operator== give false, the
\* same node against itself included, and the fatal branch is not reached.
C11_ScopeNeverEqual ==
  (/\ ecmp.result # "none"
   /\ exprs[ecmp.lhs].ID = "EXPR_SCOPE"
   /\ exprs[ecmp.rhs].ID = "EXPR_SCOPE")
  => ecmp.result = "false"

\* C12: operator== on two FnCall expressions and hash on a FnCall
\* expression reach the fatal default and return no value, as they do for
\* an expression whose tag is EXPR_BASE.
C12_FnCallUnreachable ==
  /\ (/\ ecmp.result # "none"
      /\ exprs[ecmp.lhs].ID \in {"EXPR_FN_CALL", "EXPR_BASE"}
      /\ exprs[ecmp.rhs].ID = exprs[ecmp.lhs].ID)
     => ecmp.result = "fatal"
  /\ (/\ call.op = "hash"
      /\ exprs[call.expr].ID \in {"EXPR_FN_CALL", "EXPR_BASE"})
     => call.outcome = "fatal"
  /\ (/\ call.op = "hash"
      /\ exprs[call.expr].ID \notin {"EXPR_FN_CALL", "EXPR_BASE"})
     => call.outcome = "value"

\* C12's case: two distinct function calls are compared.
C12_Witness ==
  /\ ecmp.lhs # ecmp.rhs
  /\ ecmp.lhs # nullptr
  /\ exprs[ecmp.lhs].ID = "EXPR_FN_CALL"
  /\ exprs[ecmp.rhs].ID = "EXPR_FN_CALL"
  /\ ecmp.result = "fatal"

\* C13: a read or a write is global if and only if its local ID is the
\* largest u64: the name-only constructors build global nodes, the local
\* constructors assert on that ID and otherwise build a node that is not
\* global and holds the ID given, and get_local_ID asserts on a global node
\* and otherwise returns the ID.
C13_GlobalIffSentinel ==
  /\ \A e \in ExprHandles :
       exprs[e].ID \in {"EXPR_VAR_READ", "EXPR_VAR_WRITE"}
         => (is_global(exprs[e]) <=> exprs[e].local_ID = U64Max)
  /\ call.op \in {"VarReadExpr(name)", "VarWriteExpr(name, value)"}
       => /\ call.outcome = "built"
          /\ is_global(exprs[call.expr])
          /\ exprs[call.expr].local_ID = U64Max
  /\ call.op \in {"VarReadExpr(name, local_ID)", "VarWriteExpr(name, value, local_ID)"}
       => IF call.arg = U64Max THEN call.outcome = "assert"
          ELSE /\ call.outcome = "built"
               /\ ~is_global(exprs[call.expr])
               /\ exprs[call.expr].local_ID = call.arg
  /\ call.op = "get_local_ID"
       => IF exprs[call.expr].local_ID = U64Max THEN call.outcome = "assert"
          ELSE /\ call.outcome = "value"
               /\ call.value = exprs[call.expr].local_ID

\* C13's case: get_local_ID is called on a write to a global.
C13_Witness ==
  /\ call.op = "get_local_ID"
  /\ exprs[call.expr].ID = "EXPR_VAR_WRITE"
  /\ exprs[call.expr].local_ID = U64Max
  /\ call.outcome = "assert"

\* ------------------------------------------------------ the reports ----
\* The parse so far, as the functions that report see it.
Parsing == World(ast, exprs, io)

\* The reports ReportSpec lets a parse make.
Reportable(as) ==
  io[as] < (IF as = "ERROR" THEN MaxErrorReports ELSE MaxOtherReports)

\* The parse takes the world w.
Becomes(w) ==
  /\ ast' = w.ast
  /\ exprs' = w.exprs
  /\ io' = w.io

\* The parse calls generate_any<as>(src_info, panic_c, ...).
GenerateAny ==
  /\ Idle
  /\ \E as \in Severities, panic_c \in PanicRoutines :
       /\ Reportable(as)
       /\ Becomes(generate_any(Parsing, as, panic_c))
  /\ UNCHANGED <<types, cmp, sup, ecmp, call, saved, main>>

\* The parse calls generate_any_current<as>(panic_c, ...).
GenerateAnyCurrent ==
  /\ Idle
  /\ \E as \in Severities, panic_c \in PanicRoutines :
       /\ Reportable(as)
       /\ Becomes(generate_any_current(Parsing, as, panic_c))
  /\ UNCHANGED <<types, cmp, sup, ecmp, call, saved, main>>

\* Expected<AST, u32> CreateAST(from, ctx), once the ASTMaker a has parsed
\* from: the AST if a.get_error_count() is 0, the error count if not.
CreateASTResult(a) ==
  IF a.error_count = 0
  THEN [op |-> "CreateAST", outcome |-> "AST", value |-> 0,
        expressions |-> a.expressions]
  ELSE [op |-> "CreateAST", outcome |-> "error", value |-> a.error_count,
        expressions |-> << >>]

\* The parse is over and CreateAST returns.
CreateASTReturn ==
  /\ Idle
  /\ current_tkn(Parsing) = "TKN_EOF"
  /\ call' = CreateASTResult(ast)
  /\ UNCHANGED <<types, cmp, sup, exprs, ecmp, parseVars>>

ReportNext ==
  \/ GenerateAny
  \/ GenerateAnyCurrent
  \/ CreateASTReturn

\* A parse seen as the reports it makes.
ReportSpec == Init /\ [][ReportNext]_vars

\* ------------------------------------------------ parsing a text ----
\* The tokens a text is made of: every token but TKN_EOF, which ends it.
TextTokens ==
  {"TKN_I64_L", "TKN_PLUS", "TKN_MINUS", "TKN_STAR", "TKN_LEFT_PAREN",
   "TKN_RIGHT_PAREN", "TKN_COMMA", "TKN_SEMICOLON", "TKN_ERROR"}

\* The texts of at most n tokens.
Texts(n) == UNION { [1..k -> TextTokens] : k \in 0..n }

\* An ASTMaker is constructed on a text.
ParseInit ==
  /\ types = << >>
  /\ cmp = NoCmp
  /\ sup = NoSup
  /\ exprs = << >>
  /\ ecmp = NoECmp
  /\ call = NoCall
  /\ \E strv \in Texts(MaxTokens) : ast = ASTMaker(strv)
  /\ io = NoReport
  /\ saved = << >>
  /\ main = NoMain

\* The precedences parse_binary is called with: its default, and those of
\* the operators.
CalledPrecedences == {0} \cup { GetOpPrecedence(tkn) : tkn \in BinaryOperatorTokens }

\* A call parse_binary(precedence) at the current token.
ParseBinary ==
  /\ Idle
  /\ current_tkn(Parsing) # "TKN_EOF"
  /\ \E precedence \in CalledPrecedences :
       LET returned == parse_binary(Parsing, precedence)
       IN  /\ Becomes(returned.w)
           /\ call' = [op |-> "parse_binary", precedence |-> precedence,
                       begin |-> ast.current, expr |-> returned.ret,
                       errors |-> returned.w.io.ERROR - io.ERROR,
                       outcome |-> "value", value |-> 0]
  /\ UNCHANGED <<types, cmp, sup, ecmp, saved, main>>

\* The caller of parse_binary takes the expression and consumes the token
\* the call stopped at.
Proceed ==
  /\ call.op = "parse_binary"
  /\ Becomes(consume_current_tkn(Parsing))
  /\ call' = NoCall
  /\ UNCHANGED <<types, cmp, sup, ecmp, saved, main>>

\* A call consume_current_tkn() between two expressions.
ConsumeCurrentTkn ==
  /\ Idle
  /\ current_tkn(Parsing) # "TKN_EOF"
  /\ Becomes(consume_current_tkn(Parsing))
  /\ UNCHANGED <<types, cmp, sup, ecmp, call, saved, main>>

\* A call GetOpPrecedence(current_tkn).
OpPrecedence ==
  /\ Idle
  /\ call' = [op |-> "GetOpPrecedence", tkn |-> current_tkn(Parsing),
              outcome |-> "value", value |-> GetOpPrecedence(current_tkn(Parsing))]
  /\ UNCHANGED <<types, cmp, sup, exprs, ecmp, parseVars>>

ParseNext ==
  \/ ParseBinary
  \/ Proceed
  \/ ConsumeCurrentTkn
  \/ OpPrecedence
  \/ CreateASTReturn
  \/ Resume

\* The parse of the expressions of a text.
ParseSpec == ParseInit /\ [][ParseNext]_vars

\* ------------------------------------------------- local variables ----
\* std::pair<StringView, PTR<const Type>>: an entry of local_var_table.
LocalVar(name, type) == [first |-> name, second |-> type]

\* SavedLocalState(ASTMaker& ast): old_sz is the size of ast's table.  The
\* field entered, the table as it was, is no member of the object: it is
\* kept to state what the destructor restores.
SavedLocalState(a) ==
  [old_sz |-> Len(a.local_var_table), entered |-> a.local_var_table]

\* A mutant of Restore: the destructor removes the last entry only.
Restore_PopOne(a, state) ==
  [a EXCEPT !.local_var_table = SubSeq(@, 1, Len(@) - 1)]

\* ~SavedLocalState(): the table of ast is cut back to old_sz entries.
Restore(a, state) ==
  [a EXCEPT !.local_var_table = SubSeq(@, 1, state.old_sz)]

\* A mutant of find_local: the scan runs from the oldest entry.
RECURSIVE find_local_OldestFirst(_, _, _)
find_local_OldestFirst(table, name, i) ==
  IF i = 0 THEN 0
  ELSE LET older == find_local_OldestFirst(table, name, i - 1)
       IN  IF older # 0 THEN older
           ELSE IF table[i].first = name THEN i ELSE 0

\* The scan of the local variable table for name, from entry i down to the
\* first: the position of the most recent entry of that name, 0 if none.
RECURSIVE find_local(_, _, _)
find_local(table, name, i) ==
  IF i = 0 THEN 0
  ELSE IF table[i].first = name THEN i
       ELSE find_local(table, name, i - 1)

\* Map<StringView, PTR<Expr>>::insert_or_assign
insert_or_assign(map, key, value) ==
  [k \in DOMAIN map \cup {key} |-> IF k = key THEN value ELSE map[k]]

\* PTR<Expr> parse_identifier(line_state), for the identifier name when no
\* '(' follows: a read of the most recent local of that name, whose local
\* ID is its index in the table; a read of the global of that name; or an
\* error and an ErrorExpr.
parse_identifier(w, name) ==
  LET table == w.ast.local_var_table
      found == find_local(table, name, Len(table))
  IN  CASE found # 0 -> Created(w, VariableReadExprLocal(name, found - 1))
        [] found = 0 /\ name \in DOMAIN w.ast.global_map ->
             Created(w, VariableReadExprGlobal(name))
        [] OTHER -> Created(generate_any(w, "ERROR", "none"), ErrorExpr)

\* PTR<Expr> parse_assignment(lhs, line_state): the write to the variable
\* lhs reads, of the value parsed after '='; ret is the ErrorExpr when lhs
\* is one.
parse_assignment(w, lhs) ==
  IF w.exprs[lhs].ID # "EXPR_VAR_READ"
  THEN [w |-> w, ret |-> lhs]
  ELSE LET value == Created(w, LiteralExpr(0))
           read == w.exprs[lhs]
       IN  IF is_global(read)
           THEN Created(value.w, VariableWriteExprGlobal(read.name, value.ret))
           ELSE Created(value.w,
                  VariableWriteExprLocal(read.name, value.ret, read.local_ID))

\* How a declaration can end: well; with an error before its name entered
\* the table; with an error after.
DeclOutcomes == {"declared", "error", "error_after"}

\* PTR<Expr> parse_variable_decl(bool is_global): a local enters
\* local_var_table, a global enters global_map; a declaration that reported
\* an error yields an ErrorExpr.
parse_variable_decl(w, is_global_v, name, type, outcome) ==
  LET registered ==
        IF outcome = "error" THEN w
        ELSE IF is_global_v
        THEN [w EXCEPT !.ast.global_map =
                insert_or_assign(@, name, Len(w.exprs) + 1)]
        ELSE [w EXCEPT !.ast.local_var_table = Append(@, LocalVar(name, type))]
  IN  IF outcome = "declared"
      THEN Created(registered, VariableDeclExpr(name, nullptr, is_global_v))
      ELSE Created(generate_any(registered, "ERROR", "panic_consume_semicolon"),
                   ErrorExpr)

\* The types the variables are declared with.
ScopeInit ==
  /\ types = <<BuiltInFactory("CreateU8", FALSE), BuiltInFactory("CreateF32", FALSE)>>
  /\ cmp = NoCmp
  /\ sup = NoSup
  /\ exprs = << >>
  /\ ecmp = NoECmp
  /\ call = NoCall
  /\ ast = ASTMaker(<< >>)
  /\ io = NoReport
  /\ saved = << >>
  /\ main = NoMain

\* parse_scope enters a scope: a SavedLocalState is constructed.
EnterScope ==
  /\ Idle
  /\ Len(saved) < MaxScopes
  /\ saved' = Append(saved, SavedLocalState(ast))
  /\ UNCHANGED <<types, cmp, sup, exprs, ecmp, call, ast, io, main>>

\* parse_scope leaves the scope: the innermost SavedLocalState is destroyed.
LeaveScope ==
  /\ Idle
  /\ saved # << >>
  /\ LET state == saved[Len(saved)]
     IN  /\ ast' = Restore(ast, state)
         /\ saved' = SubSeq(saved, 1, Len(saved) - 1)
         /\ call' = [op |-> "~SavedLocalState", old_sz |-> state.old_sz,
                     entered |-> state.entered,
                     size |-> Len(ast.local_var_table),
                     outcome |-> "value", value |-> 0]
  /\ UNCHANGED <<types, cmp, sup, exprs, ecmp, io, main>>

\* A declaration of a local variable; the table holds fewer entries than a
\* local ID has values.
DeclareLocal ==
  /\ Idle
  /\ Len(exprs) < MaxStatements
  /\ Len(ast.local_var_table) < U64Max
  /\ \E name \in Names, type \in Handles, outcome \in DeclOutcomes :
       Becomes(parse_variable_decl(Parsing, FALSE, name, type, outcome).w)
  /\ UNCHANGED <<types, cmp, sup, ecmp, call, saved, main>>

\* A declaration of a global variable, outside every scope.
DeclareGlobal ==
  /\ Idle
  /\ Len(exprs) < MaxStatements
  /\ saved = << >>
  /\ \E name \in Names, type \in Handles, outcome \in DeclOutcomes :
       Becomes(parse_variable_decl(Parsing, TRUE, name, type, outcome).w)
  /\ UNCHANGED <<types, cmp, sup, ecmp, call, saved, main>>

\* A read of the variable name.
ReadIdentifier ==
  /\ Idle
  /\ Len(exprs) < MaxStatements
  /\ \E name \in Names :
       LET read == parse_identifier(Parsing, name)
       IN  /\ Becomes(read.w)
           /\ call' = [op |-> "parse_identifier", name |-> name,
                       expr |-> read.ret,
                       errors |-> read.w.io.ERROR - io.ERROR,
                       outcome |-> "value", value |-> 0]
  /\ UNCHANGED <<types, cmp, sup, ecmp, saved, main>>

\* A write to the variable name: the identifier is parsed, then the
\* assignment.
WriteIdentifier ==
  /\ Idle
  /\ Len(exprs) + 2 < MaxStatements
  /\ \E name \in Names :
       LET read == parse_identifier(Parsing, name)
           written == parse_assignment(read.w, read.ret)
       IN  /\ Becomes(written.w)
           /\ call' = [op |-> "parse_assignment", name |-> name,
                       expr |-> written.ret,
                       errors |-> written.w.io.ERROR - io.ERROR,
                       outcome |-> "value", value |-> 0]
  /\ UNCHANGED <<types, cmp, sup, ecmp, saved, main>>

ScopeNext ==
  \/ EnterScope
  \/ LeaveScope
  \/ DeclareLocal
  \/ DeclareGlobal
  \/ ReadIdentifier
  \/ WriteIdentifier
  \/ Resume

\* The scopes, declarations and variable accesses of a parse.
ScopeSpec == ScopeInit /\ [][ScopeNext]_vars

\* --------------------------------------------------- function calls ----
\* FnDeclExpr: the declaration of a function, name and type.
FnDeclExpr(name, type) == [ID |-> "EXPR_FN_DECL", type |-> type, name |-> name]

\* FnCallExpr: the call of decl with the arguments.
FnCallExpr(decl, arguments) ==
  [ID |-> "EXPR_FN_CALL", decl |-> decl, arguments |-> arguments]

\* An argument of a call: its expression and the type inferred for it.
Argument(expr, type) == [expr |-> expr, type |-> type]

\* Whether a value of type from converts to type to: the built-in scalars
\* convert to one another.
is_convertible(from, to) ==
  types[from].ID = "TYPE_BUILTIN" /\ types[to].ID = "TYPE_BUILTIN"

\* What validate_fn_call and parse_function_call end with.
Validated(w, ret, outcome) == [w |-> w, ret |-> ret, outcome |-> outcome]

\* validate_fn_call: the loop over the arguments, from the i-th.  Each
\* argument's type is asked is_equal_with_const of the parameter's type;
\* the first that is neither that nor convertible is reported.
RECURSIVE validate_arguments(_, _, _, _)
validate_arguments(w, arguments, params, i) ==
  IF i > Len(arguments) THEN {Validated(w, TRUE, "value")}
  ELSE UNION {
         CASE r \in {"fatal", "crash"} -> {Validated(w, FALSE, r)}
           [] r = "true" -> validate_arguments(w, arguments, params, i + 1)
           [] r = "false" /\ is_convertible(arguments[i].type, params[i]) ->
                validate_arguments(w, arguments, params, i + 1)
           [] OTHER -> {Validated(generate_any(w, "ERROR", "none"), FALSE, "value")}
         : r \in is_equal_with_const(arguments[i].type, params[i]) }

\* validate_fn_call: the argument count is the declared parameter count.
ArityMatches(arguments, params) == Len(arguments) = Len(params)

\* bool validate_fn_call(arguments, decl, identifier, info): the outcomes.
validate_fn_call(w, arguments, decl) ==
  LET params == types[w.exprs[decl].type].args_type
  IN  IF ~ArityMatches(arguments, params)
      THEN {Validated(generate_any(w, "ERROR", "none"), FALSE, "value")}
      ELSE validate_arguments(w, arguments, params, 1)

\* parse_function_call_arguments: one expression per argument type.
RECURSIVE parse_function_call_arguments(_, _, _)
parse_function_call_arguments(w, arguments, arg_types) ==
  IF arg_types = << >> THEN [w |-> w, ret |-> arguments]
  ELSE LET parsed == Created(w, LiteralExpr(0))
       IN  parse_function_call_arguments(parsed.w,
             Append(arguments, Argument(parsed.ret, Head(arg_types))),
             Tail(arg_types))

\* PTR<Expr> parse_function_call(identifier, line_state), the arguments
\* being of the types arg_types: the outcomes.  The callee is looked up in
\* global_map, the arguments are parsed, the call is validated; ret is a
\* FnCallExpr if it is valid and an ErrorExpr if not.
parse_function_call(w, identifier, arg_types) ==
  LET collected == parse_function_call_arguments(w, << >>, arg_types)
  IN  IF identifier \notin DOMAIN w.ast.global_map
      THEN LET error == Created(generate_any(collected.w, "ERROR", "none"), ErrorExpr)
           IN  {Validated(error.w, error.ret, "value")}
      ELSE LET decl == w.ast.global_map[identifier]
           IN  { IF v.outcome # "value" THEN Validated(v.w, nullptr, v.outcome)
                 ELSE LET made == IF v.ret
                                  THEN Created(v.w, FnCallExpr(decl,
                                         [i \in DOMAIN collected.ret |->
                                            collected.ret[i].expr]))
                                  ELSE Created(v.w, ErrorExpr)
                      IN  Validated(made.w, made.ret, "value")
                 : v \in validate_fn_call(collected.w, collected.ret, decl) }

\* The types of values: two scalars and the pointers to them.
ValueTypes == 1..4

\* The lists of at most n types of values.
TypeLists(n) == UNION { [1..k -> ValueTypes] : k \in 0..n }

CallInit ==
  /\ types = <<BuiltInFactory("CreateU8", FALSE), BuiltInFactory("CreateF32", FALSE),
               PtrType(FALSE, 1), PtrType(FALSE, 2)>>
  /\ cmp = NoCmp
  /\ sup = NoSup
  /\ exprs = << >>
  /\ ecmp = NoECmp
  /\ call = NoCall
  /\ ast = ASTMaker(<< >>)
  /\ io = NoReport
  /\ saved = << >>
  /\ main = NoMain

\* parse_fn_decl: a function not declared yet is declared; its type enters
\* the context, its declaration enters global_map.
DeclareFn ==
  /\ Idle
  /\ \E name \in Names \ DOMAIN ast.global_map,
        return_type \in {1}, args_type \in TypeLists(MaxArguments - 1) :
       /\ add_type(FnType(return_type, args_type))
       /\ add_expr(FnDeclExpr(name, Len(types) + 1))
       /\ ast' = [ast EXCEPT !.global_map =
                    insert_or_assign(@, name, Len(exprs) + 1)]
  /\ UNCHANGED <<cmp, sup, ecmp, call, io, saved, main>>

\* A call of parse_function_call.
CallFunction ==
  /\ Idle
  /\ Len(exprs) < MaxStatements
  /\ \E identifier \in Names, arg_types \in TypeLists(MaxArguments) :
       \E returned \in parse_function_call(Parsing, identifier, arg_types) :
         /\ Becomes(returned.w)
         /\ call' = [op |-> "parse_function_call", identifier |-> identifier,
                     arg_types |-> arg_types, expr |-> returned.ret,
                     errors |-> returned.w.io.ERROR - io.ERROR,
                     error_count |-> ast.error_count,
                     outcome |-> returned.outcome, value |-> 0]
  /\ UNCHANGED <<types, cmp, sup, ecmp, saved, main>>

CallNext ==
  \/ DeclareFn
  \/ CallFunction
  \/ Resume

\* The function declarations and calls of a parse.
CallSpec == CallInit /\ [][CallNext]_vars

\* ------------------------------------------------- error recovery ----
\* PTR<Expr> parse_statement(): an expression, then the ';' that ends the
\* statement.
parse_statement(w) ==
  LET to_ret == parse_binary(w, 0)
  IN  [w |-> check_and_consume(to_ret.w, "TKN_SEMICOLON",
                               "panic_consume_semicolon").w,
       ret |-> to_ret.ret]

\* The loop of the ASTMaker's constructor: while the text has not ended, a
\* statement is parsed and its expression pushed on expressions.
ParseStatement ==
  /\ Idle
  /\ current_tkn(Parsing) # "TKN_EOF"
  /\ LET returned == parse_statement(Parsing)
     IN  Becomes([returned.w EXCEPT !.ast.expressions = Append(@, returned.ret)])
  /\ UNCHANGED <<types, cmp, sup, ecmp, call, saved, main>>

StatementNext ==
  \/ ParseStatement
  \/ CreateASTReturn

\* The parse of the statements of a text.
StatementSpec == ParseInit /\ [][StatementNext]_vars

\* The tokens of the texts on which the recovery routines are run.
RecoverTokens ==
  {"TKN_I64_L", "TKN_PLUS", "TKN_SEMICOLON", "TKN_LEFT_PAREN",
   "TKN_RIGHT_PAREN", "TKN_COLON", "TKN_LEFT_CURLY"}

\* An ASTMaker is constructed on a text of those tokens.
RecoverInit ==
  /\ types = << >>
  /\ cmp = NoCmp
  /\ sup = NoSup
  /\ exprs = << >>
  /\ ecmp = NoECmp
  /\ call = NoCall
  /\ \E strv \in UNION { [1..k -> RecoverTokens] : k \in 0..MaxTokens } :
       ast = ASTMaker(strv)
  /\ io = NoReport
  /\ saved = << >>
  /\ main = NoMain

\* A call check_and_consume(expected, panic, fmt, args...); the overload
\* without panic is the call with panic_consume_semicolon.
CheckAndConsume ==
  /\ Idle
  /\ io.ERROR < MaxRecoveries
  /\ \E expected \in RecoverTokens \cup {"TKN_EOF"}, panic \in PanicRoutines :
       LET returned == check_and_consume(Parsing, expected, panic)
       IN  /\ Becomes(returned.w)
           /\ call' = [op |-> "check_and_consume", expected |-> expected,
                       panic |-> panic, tkn |-> current_tkn(Parsing),
                       begin |-> ast.current, ret |-> returned.ret,
                       error_count |-> ast.error_count,
                       errors |-> returned.w.io.ERROR - io.ERROR,
                       outcome |-> "value", value |-> 0]
  /\ UNCHANGED <<types, cmp, sup, ecmp, saved, main>>

\* A call of one of the three panic routines.
PanicConsume ==
  /\ Idle
  /\ \E panic_c \in PanicRoutines \ {"nullptr"} :
       /\ Becomes(panic_consume(Parsing, panic_c))
       /\ call' = [op |-> "panic_consume", panic |-> panic_c,
                   begin |-> ast.current, outcome |-> "value", value |-> 0]
  /\ UNCHANGED <<types, cmp, sup, ecmp, saved, main>>

\* A call check_and_consume(TKN_SEMICOLON, fmt) of a parse that goes on after
\* each error, here where the text has ended.
ExpectSemicolon ==
  /\ call.op # "CreateAST"
  /\ Reportable("ERROR")
  /\ LET returned ==
           check_and_consume(Parsing, "TKN_SEMICOLON", "panic_consume_semicolon")
     IN  /\ Becomes(returned.w)
         /\ call' = [op |-> "check_and_consume", expected |-> "TKN_SEMICOLON",
                     panic |-> "panic_consume_semicolon",
                     tkn |-> current_tkn(Parsing),
                     begin |-> ast.current, ret |-> returned.ret,
                     error_count |-> ast.error_count,
                     errors |-> returned.w.io.ERROR - io.ERROR,
                     outcome |-> "value", value |-> 0]
  /\ UNCHANGED <<types, cmp, sup, ecmp, saved, main>>

ExpectNext ==
  \/ ExpectSemicolon
  \/ CreateASTReturn

\* A parse seen as the semicolons it misses.
ExpectSpec == Init /\ [][ExpectNext]_vars

RecoverNext ==
  \/ CheckAndConsume
  \/ PanicConsume
  \/ ConsumeCurrentTkn
  \/ Resume

\* The recovery routines of the parser on a text.
RecoverSpec == RecoverInit /\ [][RecoverNext]_vars

\* ------------------------------------------------------- the lexer ----
\* The characters of a line: a digit, an operator character and a blank.
Chars == {"1", "+", " "}

\* The lines of at most n characters; the NUL that ends the buffer is the
\* end of the sequence.
Lines(n) == UNION { [1..k -> Chars] : k \in 0..n }

\* Lexer lexer = { buffer }: the text scanned, the offset of the next
\* character, and the calls of get_next_token made so far.
Lexer(strv) == [text |-> strv, offset |-> 1, calls |-> 0]

\* The first offset at or after i that holds no c, or the end.
RECURSIVE SkipWhile(_, _, _)
SkipWhile(text, i, c) ==
  IF i > Len(text) \/ text[i] # c THEN i
  ELSE SkipWhile(text, i + 1, c)

\* A mutant of get_next_token: at the end of the input the scan goes back
\* to the first character.
get_next_token_Rewinds(lexer) ==
  LET begin == SkipWhile(lexer.text, lexer.offset, " ")
  IN  CASE begin > Len(lexer.text) ->
             [lexer |-> [lexer EXCEPT !.offset = 1, !.calls = @ + 1],
              tkn |-> "TKN_EOF"]
        [] OTHER ->
             [lexer |-> [lexer EXCEPT !.offset = Len(lexer.text) + 1,
                                      !.calls = @ + 1],
              tkn |-> "TKN_I64_L"]

\* Token Lexer::get_next_token(): blanks are skipped; at the NUL the token
\* is TKN_EOF and the offset stays; the digits of a literal are taken
\* together; "++" is one token, never two '+'.
get_next_token(lexer) ==
  LET begin == SkipWhile(lexer.text, lexer.offset, " ")
  IN  CASE begin > Len(lexer.text) ->
             [lexer |-> [lexer EXCEPT !.offset = begin, !.calls = @ + 1],
              tkn |-> "TKN_EOF"]
        [] lexer.text[begin] = "1" ->
             [lexer |-> [lexer EXCEPT
                           !.offset = SkipWhile(lexer.text, begin, "1"),
                           !.calls = @ + 1],
              tkn |-> "TKN_I64_L"]
        [] begin < Len(lexer.text) /\ lexer.text[begin + 1] = "+" ->
             [lexer |-> [lexer EXCEPT !.offset = begin + 2, !.calls = @ + 1],
              tkn |-> "TKN_PLUS_PLUS"]
        [] OTHER ->
             [lexer |-> [lexer EXCEPT !.offset = begin + 1, !.calls = @ + 1],
              tkn |-> "TKN_PLUS"]

\* A Lexer is constructed on a bounded buffer that ends in NUL.
LexerInit ==
  /\ types = << >>
  /\ cmp = NoCmp
  /\ sup = NoSup
  /\ exprs = << >>
  /\ ecmp = NoECmp
  /\ call = NoCall
  /\ ast = ASTMaker(<< >>)
  /\ io = NoReport
  /\ saved = << >>
  /\ \E buffer \in Lines(MaxLine) :
       main = [NoMain EXCEPT
                 !.pc = "lexer",
                 !.buffer = [line |-> 1, fresh |-> TRUE, text |-> buffer],
                 !.lexer = Lexer(buffer)]

\* A call tkn = lexer.get_next_token(), whatever tkn was.
GetNextToken ==
  /\ main.pc = "lexer"
  /\ main.lexer.calls < MaxCalls
  /\ LET returned == get_next_token(main.lexer)
     IN  main' = [main EXCEPT !.lexer = returned.lexer, !.tkn = returned.tkn]
  /\ UNCHANGED <<types, cmp, sup, exprs, ecmp, call, ast, io, saved>>

\* A lexer on a buffer, called again and again.
LexerSpec == LexerInit /\ [][GetNextToken]_vars

\* The caller's loop goes on: a call that can be made is made.
LexerLiveSpec == LexerSpec /\ WF_vars(GetNextToken)

\* ------------------------------------------------------------ main ----
\* int main(): stdin holds the lines of text, the last of them ended by a
\* newline or not, none read; buffer was not written.
MainInit ==
  /\ types = << >>
  /\ cmp = NoCmp
  /\ sup = NoSup
  /\ exprs = << >>
  /\ ecmp = NoECmp
  /\ call = NoCall
  /\ ast = ASTMaker(<< >>)
  /\ io = NoReport
  /\ saved = << >>
  /\ \E n \in 0..MaxLines, terminated \in BOOLEAN :
       \E text \in [1..n -> Lines(MaxLine)] :
         /\ ~terminated => (n > 0 /\ text[n] # << >>)
         /\ main = [NoMain EXCEPT !.pc = "while", !.stdin = text,
                                  !.terminated = terminated]

\* while (!feof(stdin)): the end-of-file indicator of stdin is tested.
While ==
  /\ main.pc = "while"
  /\ main' = [main EXCEPT !.pc = IF main.eof THEN "return" ELSE "fgets"]
  /\ UNCHANGED <<types, cmp, sup, exprs, ecmp, call, ast, io, saved>>

\* fgets(buffer, 2500, stdin), its result unused.  With a line left, the
\* line is written to buffer, and the indicator is set if the end of the
\* file was met before a newline.  With none left nothing is written and
\* the indicator is set.
Fgets ==
  /\ main.pc = "fgets"
  /\ IF main.read < Len(main.stdin)
     THEN main' = [main EXCEPT
                     !.pc = "Lexer",
                     !.read = @ + 1,
                     !.buffer = [line |-> main.read + 1, fresh |-> TRUE,
                                 text |-> main.stdin[main.read + 1]],
                     !.eof = /\ main.read + 1 = Len(main.stdin)
                             /\ ~main.terminated]
     ELSE main' = [main EXCEPT
                     !.pc = "Lexer",
                     !.eof = TRUE,
                     !.buffer = [@ EXCEPT !.fresh = FALSE]]
  /\ UNCHANGED <<types, cmp, sup, exprs, ecmp, call, ast, io, saved>>

\* lang::Lexer lexer = { buffer }; tkn = lexer.get_next_token().  The
\* contents of a buffer never written are indeterminate: any text, or no
\* NUL in the array, and then the scan leaves the array.
LexerOnBuffer ==
  /\ main.pc = "Lexer"
  /\ IF main.buffer = Unwritten
     THEN \/ \E text \in Lines(MaxLine) :
               LET returned == get_next_token(Lexer(text))
               IN  main' = [main EXCEPT
                              !.pc = "loop",
                              !.lexer = returned.lexer, !.tkn = returned.tkn,
                              !.tokenized = Append(@, [line |-> 0, fresh |-> FALSE])]
          \/ main' = [main EXCEPT
                        !.pc = "crash",
                        !.tokenized = Append(@, [line |-> 0, fresh |-> FALSE])]
     ELSE LET returned == get_next_token(Lexer(main.buffer.text))
          IN  main' = [main EXCEPT
                         !.pc = "loop",
                         !.lexer = returned.lexer, !.tkn = returned.tkn,
                         !.tokenized = Append(@, [line |-> main.buffer.line,
                                                  fresh |-> main.buffer.fresh])]
  /\ UNCHANGED <<types, cmp, sup, exprs, ecmp, call, ast, io, saved>>

\* while (tkn != lang::TKN_EOF) tkn = lexer.get_next_token();
TokenLoop ==
  /\ main.pc = "loop"
  /\ IF main.tkn # "TKN_EOF"
     THEN LET returned == get_next_token(main.lexer)
          IN  main' = [main EXCEPT !.lexer = returned.lexer,
                                   !.tkn = returned.tkn]
     ELSE main' = [main EXCEPT !.pc = "while"]
  /\ UNCHANGED <<types, cmp, sup, exprs, ecmp, call, ast, io, saved>>

MainNext ==
  \/ While
  \/ Fgets
  \/ LexerOnBuffer
  \/ TokenLoop

\* The program run on a standard input.
MainSpec == MainInit /\ [][MainNext]_vars

\* C14: CreateAST returns the AST if and only if no error was reported, and
\* the error count if not; the count is the number of errors reported, a
\* warning or a message leaving it as it is.
C14_ASTIffNoErrorReported ==
  /\ ast.error_count = io.ERROR
  /\ call.op = "CreateAST"
       => /\ (call.outcome = "AST") <=> (io.ERROR = 0)
          /\ call.outcome = "error" => call.value = io.ERROR

RECURSIVE TopLevel(_, _, _, _)
TopLevel(lexer, i, j, depth) ==
  IF i > j \/ i > Len(lexer) THEN {}
  ELSE LET inner ==
             CASE lexer[i] = "TKN_LEFT_PAREN" -> depth + 1
               [] lexer[i] = "TKN_RIGHT_PAREN" /\ depth > 0 -> depth - 1
               [] OTHER -> depth
       IN  (IF depth = 0 /\ inner = 0 THEN {lexer[i]} ELSE {})
             \cup TopLevel(lexer, i + 1, j, inner)

C18_TableRestoredOnScopeExit ==
  /\ \A i \in 1..Len(saved) :
       /\ saved[i].old_sz <= Len(ast.local_var_table)
       /\ SubSeq(ast.local_var_table, 1, saved[i].old_sz) = saved[i].entered
  /\ call.op = "~SavedLocalState"
       => /\ Len(ast.local_var_table) = call.old_sz
          /\ ast.local_var_table = call.entered

\* C18's case: a scope is left that was entered with a local declared, and
\* in which a declaration that reported an error left its name in the table.
C18_Witness ==
  /\ call.op = "~SavedLocalState"
  /\ call.old_sz = 1
  /\ call.size = 2
  /\ io.ERROR > 0
  /\ Len(ast.local_var_table) = 1

\* The positions of the entries of table that are named name.
Declared(table, name) == { i \in 1..Len(table) : table[i].first = name }

\* The greatest number of a non-empty set of numbers.
Greatest(S) == CHOOSE i \in S : \A j \in S : j <= i

RECURSIVE SameValueType(_, _)
SameValueType(a, b) ==
  /\ types[a].ID = types[b].ID
  /\ types[a].is_const = types[b].is_const
  /\ CASE types[a].ID = "TYPE_BUILTIN" -> types[a].builtin_ID = types[b].builtin_ID
       [] types[a].ID = "TYPE_PTR" -> SameValueType(types[a].ptr_to, types[b].ptr_to)
       [] OTHER -> FALSE

\* The call has not the number of arguments the callee declares, or an
\* argument is of a type that is not that of its parameter and does not
\* convert to it.
Mismatch(arg_types, params) ==
  \/ Len(arg_types) # Len(params)
  \/ \E i \in 1..Len(params) :
       /\ ~SameValueType(arg_types[i], params[i])
       /\ ~is_convertible(arg_types[i], params[i])

\* C20: a call of a declared function with the wrong number of arguments,
\* or with an argument whose type is neither is_equal_with_const to the
\* parameter's nor convertible to it, returns: one error more is counted
\* and the expression returned is the ErrorExpr.
C20_MismatchYieldsErrorExpr ==
  (/\ call.op = "parse_function_call"
   /\ call.identifier \in DOMAIN ast.global_map
   /\ Mismatch(call.arg_types,
               types[exprs[ast.global_map[call.identifier]].type].args_type))
  => /\ call.outcome = "value"
     /\ call.errors = 1
     /\ ast.error_count = (call.error_count + 1) % (U16Max + 1)
     /\ exprs[call.expr] = ErrorExpr

\* C24: get_warn_count() is the number of warnings generated so far: a
\* report of severity WARNING adds one to warn_count, a report of another
\* severity leaves it as it is.
C24_WarnCountCountsWarnings ==
  ast.warn_count = io.WARNING

\* C27: is_equal on two function types reads no parameter list past its
\* end: every position at which a list is read is at most its length.
C27_FnParamsReadInBounds ==
  (/\ cmp.op = "is_equal"
   /\ types[cmp.this].ID = "TYPE_FN"
   /\ types[cmp.type].ID = "TYPE_FN")
  => \A i \in FnCaseReads(cmp.this, cmp.type) :
       i <= Len(types[cmp.this].args_type)

\* C28: is_equal is false for operands of different variants, neither
\* being the error sentinel, and reads nothing of the argument as if it
\* were of the receiver's variant: the result is false on every run.
C28_DifferentVariantsNeverEqual ==
  (/\ cmp.op = "is_equal"
   /\ Plain(cmp.this)
   /\ Plain(cmp.type)
   /\ types[cmp.this].ID # types[cmp.type].ID
   /\ ~is_error(cmp.this)
   /\ ~is_error(cmp.type))
  => /\ cmp.result = "false"
     /\ is_equal(cmp.this, cmp.type) = {"false"}

\* C29: hashing is consistent with equality: for two expressions of the
\* variants other than FnCall and the base tag, operator== and hash both
\* return, and two expressions that are == have the same hash.
C29_HashConsistentWithEquality ==
  (/\ ecmp.result # "none"
   /\ exprs[ecmp.lhs].ID \notin {"EXPR_FN_CALL", "EXPR_BASE"}
   /\ exprs[ecmp.rhs].ID \notin {"EXPR_FN_CALL", "EXPR_BASE"})
  => /\ ecmp.result \in {"true", "false"}
     /\ hash(ecmp.lhs).outcome = "value"
     /\ hash(ecmp.rhs).outcome = "value"
     /\ ecmp.result = "true" => hash(ecmp.lhs).value = hash(ecmp.rhs).value

\* seq is old with nothing or one node more at its end.
Extends(old, seq) ==
  /\ Len(seq) \in {Len(old), Len(old) + 1}
  /\ SubSeq(seq, 1, Len(old)) = old

\* C23: the context is an append-only arena: a factory that returns adds
\* one node, at the handle it returns, to the types or to the expressions,
\* and every node inserted before keeps its handle and its contents.
C23_ArenaAppendOnly ==
  [][/\ Extends(types, types')
     /\ Extends(exprs, exprs')
     /\ (Idle /\ call'.outcome # "assert")
          => Len(types') + Len(exprs') = Len(types) + Len(exprs) + 1]_vars

\* C23's case: a pointer type made after the type it points to and a
\* unary expression made after its operand, both still at their handles.
C23_Witness ==
  /\ Len(types) >= 2
  /\ types[1].ID = "TYPE_VOID"
  /\ types[2].ID = "TYPE_PTR"
  /\ types[2].ptr_to = 1
  /\ Len(exprs) = 2
  /\ exprs[1].ID = "EXPR_LITERAL"
  /\ exprs[2].ID = "EXPR_UNARY"
  /\ exprs[2].child = 1

\* The tokens at which a panic routine stops.
StopSet(panic) ==
  CASE panic = "panic_consume_semicolon" -> {"TKN_SEMICOLON"}
    [] panic = "panic_consume_fn_decl" ->
         {"TKN_SEMICOLON", "TKN_COLON", "TKN_LEFT_CURLY"}
    [] panic = "panic_consume_rparen" -> {"TKN_RIGHT_PAREN"}
    [] OTHER -> {}

\* The position pos is the first from begin on whose token is in stop, or
\* is the end of the text if there is none.
FirstStop(begin, pos, stop) ==
  /\ begin <= pos
  /\ pos <= Len(ast.lexer) + 1
  /\ \A i \in begin..(pos - 1) : ast.lexer[i] \notin stop
  /\ pos <= Len(ast.lexer) => ast.lexer[pos] \in stop

\* C25: check_and_consume(expected, ...) ends in one of two ways.  When
\* the current token is expected, that one token is consumed, false is
\* returned and error_count is as before.  When it is not, one error is
\* counted, the panic routine given (none for nullptr) has run from the
\* offending token, which was not consumed as a match, and true is returned.
C25_CheckAndConsumeOutcomes ==
  call.op = "check_and_consume"
  => IF call.tkn = call.expected
     THEN /\ call.ret = FALSE
          /\ ast.current = IF call.begin <= Len(ast.lexer)
                           THEN call.begin + 1 ELSE call.begin
          /\ ast.error_count = call.error_count
          /\ call.errors = 0
     ELSE /\ call.ret = TRUE
          /\ ast.error_count = call.error_count + 1
          /\ call.errors = 1
          /\ IF call.panic = "nullptr" THEN ast.current = call.begin
             ELSE FirstStop(call.begin, ast.current, StopSet(call.panic))

\* C26: a panic routine returns with the current token the first token of
\* its stop set at or after the one it started on, or TKN_EOF if there is
\* none: ';' for panic_consume_semicolon; ';', ':' or '{' for
\* panic_consume_fn_decl; ')' for panic_consume_rparen.  It consumes
\* nothing past the end of the input.
C26_PanicStopsAtFirstStop ==
  call.op = "panic_consume"
  => /\ FirstStop(call.begin, ast.current, StopSet(call.panic))
     /\ current_tkn(Parsing) \in StopSet(call.panic) \cup {"TKN_EOF"}

\* C26's case: panic_consume_fn_decl runs over two tokens, a ')' among
\* them, and stops at a '{' that a ';' follows.
C26_Witness ==
  /\ call.op = "panic_consume"
  /\ call.panic = "panic_consume_fn_decl"
  /\ call.begin = 1
  /\ ast.current = 3
  /\ Len(ast.lexer) = 4
  /\ ast.lexer[2] = "TKN_RIGHT_PAREN"
  /\ ast.lexer[3] = "TKN_LEFT_CURLY"
  /\ ast.lexer[4] = "TKN_SEMICOLON"

\* The tokens before position i are statements "literal ;" one after the
\* other, so that a statement begins at i.
RECURSIVE StatementBeginsAt(_)
StatementBeginsAt(i) ==
  \/ i = 1
  \/ /\ i >= 3
     /\ ast.lexer[i - 2] = "TKN_I64_L"
     /\ ast.lexer[i - 1] = "TKN_SEMICOLON"
     /\ StatementBeginsAt(i - 2)

\* C21: when the parse of a text is over, for every statement that is a
\* literal with no ';' after it and is followed by the valid statement
\* "literal ;", an error was counted and the literal of the following
\* statement is among the expressions of the ASTMaker.
C21_RecoveryKeepsNextStatement ==
  call.op = "CreateAST"
  => \A i \in 1..(Len(ast.lexer) - 2) :
       ( /\ StatementBeginsAt(i)
         /\ ast.lexer[i] = "TKN_I64_L"
         /\ ast.lexer[i + 1] = "TKN_I64_L"
         /\ ast.lexer[i + 2] = "TKN_SEMICOLON" )
       => /\ ast.error_count >= 1
          /\ \E k \in 1..Len(ast.expressions) :
               exprs[ast.expressions[k]] = LiteralExpr(i + 1)

\* C22: once get_next_token has returned TKN_EOF, every later call on the
\* same lexer returns TKN_EOF again; and on every bounded buffer that ends
\* in NUL the calls made one after the other come to return TKN_EOF, so
\* the loop that calls until TKN_EOF ends.
C22_EndOfInputAbsorbing ==
  /\ [][main.tkn = "TKN_EOF" => main'.tkn = "TKN_EOF"]_vars
  /\ <>(main.tkn = "TKN_EOF")

\* C22's case: on "1 1" two literals were returned, then TKN_EOF, and a
\* fourth call returned TKN_EOF again.
C22_Witness ==
  /\ main.pc = "lexer"
  /\ main.lexer.text = <<"1", " ", "1">>
  /\ main.lexer.calls = 4
  /\ main.tkn = "TKN_EOF"

\* C30: every lexer main creates runs over a buffer written by the fgets
\* of the same turn of the loop, the k-th lexer over the k-th line of
\* stdin; when main returns, as many lexers were created as stdin has
\* lines; and no scan leaves the buffer.
C30_EachLineTokenizedOnce ==
  /\ \A k \in 1..Len(main.tokenized) :
       /\ main.tokenized[k].fresh
       /\ main.tokenized[k].line = k
  /\ main.pc = "return" => Len(main.tokenized) = Len(main.stdin)
  /\ main.pc # "crash"
====
